---- MODULE Spec2Model ----
(***************************************************************************)
(* Model of the instrumented execution layer of the dashboard:             *)
(*   - rrd/corelib/__init__.py : auth_requests, the outbound call tracker  *)
(*   - rrd/store.py            : DB, the resilient data access layer       *)
(* Times are in milliseconds (the code measures seconds as floats and      *)
(* prints them with three decimals).                                       *)
(***************************************************************************)
EXTENDS Integers, Sequences, FiniteSets, TLC

(***************************************************************************)
(* Bounds of the model.                                                    *)
(***************************************************************************)
\* number of threads that run auth_requests in one process lifetime; each
\* thread makes one call, so this is also the number of calls
NumThreads == 2

\* number of DB.execute calls made on the DB instance, one after the other,
\* by a caller or by insert / update / query_all
MaxExecutes == 2

\* number of DB.commit / DB.rollback calls a caller makes on the DB instance
MaxTxCalls == 1

\* number of lines of the log the analyzer reads
MaxLines == 3

Threads == 1..NumThreads

NoThread == 0

(***************************************************************************)
(* Constants of rrd/corelib/__init__.py.                                   *)
(***************************************************************************)
\* `if elapsed > 2.0` (seconds), here in milliseconds
SlowThresholdMs == 2000

\* the methods auth_requests dispatches on
HttpMethods == {"POST", "GET", "PUT", "DELETE"}
\* the methods callers pass in the model: the first and the last branch of the
\* if/elif chain, and one method the chain does not know
Methods == {"POST", "DELETE", "PATCH"}

\* clock readings `time.time() - start_time` around the threshold
ElapsedSamples == {SlowThresholdMs, SlowThresholdMs + 1}

\* status codes of the responses the network may deliver
StatusCodes == {200, 500}

\* exceptions the requests library may raise out of requests.get/post/put/delete;
\* ConnectTimeout derives from both ConnectionError and Timeout
NetErrors == {"ReadTimeout", "ConnectTimeout", "ConnectionError", "InvalidURL"}

IsTimeout(e) == e \in {"ReadTimeout", "ConnectTimeout"}
IsConnectionError(e) == e \in {"ConnectTimeout", "ConnectionError"}

VARIABLES
    \* ---- rrd/corelib/__init__.py: module globals
    request_counter,       \* _request_counter
    request_counter_lock,  \* holder of _request_counter_lock, NoThread if free
    active_requests,       \* _active_requests: id -> CallRecord
    active_requests_lock,  \* holder of _active_requests_lock, NoThread if free
    \* ---- the logging sink and the network
    log,                   \* the [REQ_*] lines written so far, in order
    wire,                  \* ids of the calls whose request was put on the network
    \* ---- one auth_requests activation per thread
    pc,                    \* position of the thread inside auth_requests
    call,                  \* locals of the running activation
    result,                \* what the thread's last finished call gave its caller
    \* ---- rrd/store.py: one DB instance, the MySQL side and the logging sink
    conn,                  \* self.conn: 0 for None, else a connection
    conns,                 \* the connections connect_db made: "open" or "closed"
    cursors,               \* the cursors made so far: the connection of each
    db_log,                \* the [DB_*] lines written so far, in order
    db_calls,              \* number of DB.execute calls started
    db_pc,                 \* position inside DB.execute
    db_op,                 \* locals of the running DB.execute
    db_result,             \* what the last finished DB.execute gave its caller
    closed,                \* the cursors on which close() was called
    tx_calls,              \* number of direct DB.commit / DB.rollback calls
    db_wrap,               \* locals of the running insert / update / query_all
    db_out,                \* what the last finished operation other than
                           \* execute gave its caller
    db_peer,               \* a second caller of the instance, not running
                           \* now: its db_calls, db_pc, db_op and db_result
    \* ---- logs/analyze_logs.py: the input stream and one LogAnalyzer at a time
    input,                 \* the lines the first scan has read, in order
    analyzer,              \* the accumulators of the LogAnalyzer instance
    lc_pc,                 \* position of main(): scanning, report due, ended
    lc_run,                \* 1 for the first run of the tool, 2 for the second
    lc_pos,                \* number of lines the running scan has consumed
    report,                \* what generate_report printed in this run
    first_run              \* how the first run ended, once the second started

auth_vars == <<request_counter, request_counter_lock, active_requests,
               active_requests_lock, log, wire, pc, call, result>>

\* the state DB.execute itself does not touch
wrap_vars == <<closed, tx_calls, db_wrap, db_out, db_peer>>

db_vars == <<conn, conns, cursors, db_log, db_calls, db_pc, db_op, db_result,
             wrap_vars>>

lc_vars == <<input, analyzer, lc_pc, lc_run, lc_pos, report, first_run>>

vars == <<auth_vars, db_vars, lc_vars>>

\* what a network call, or a whole auth_requests call, ends with
NoOutcome == [kind |-> "none", status |-> 0, error |-> ""]
Response(status) == [kind |-> "response", status |-> status, error |-> ""]
Raised(e) == [kind |-> "error", status |-> 0, error |-> e]

NoCall == [method |-> "", token |-> FALSE, tmp |-> 0, request_id |-> 0,
           active_count |-> 0, elapsed |-> 0, net |-> NoOutcome,
           pending |-> NoOutcome]

NoResult == [id |-> 0, method |-> "", token |-> FALSE, net |-> NoOutcome,
             outcome |-> NoOutcome]

\* one line of the log: "[TAG] id=.. elapsed=.. active_count=.."; elapsed is
\* kept for REQ_SUCCESS and REQ_SLOW, whose emission depends on it, and is 0
\* on the other lines
Event(tag, id, ac, el) == [tag |-> tag, id |-> id, active_count |-> ac, elapsed |-> el]

(***************************************************************************)
(* rrd/store.py: class DB.                                                 *)
(***************************************************************************)
\* `if elapsed > 0.1` (seconds), here in milliseconds
DbSlowThresholdMs == 100

\* clock readings around the threshold
DbElapsedSamples == {DbSlowThresholdMs, DbSlowThresholdMs + 1}

\* what cursor.execute may raise: the two classes execute treats as a dead
\* connection, an integrity violation, and one class of neither kind
DbErrors == {"OperationalError", "AttributeError", "IntegrityError", "InterfaceError"}

NoCursor == 0
NoConn == 0

\* locals of DB.execute: the cursor passed in, the current cursor, the
\* exception being handled, self.conn as it was at entry, and the
\* cursor.execute calls made so far: the cursor and how the call ended
NoOp == [arg |-> NoCursor, cursor |-> NoCursor, error |-> "", stmts |-> << >>,
         old_conn |-> NoConn]

\* the caller's view of a finished execute: the returned cursor or the raised
\* error, with the statement attempts made and self.conn as it was at entry
NoDbResult == [call |-> 0, kind |-> "none", cursor |-> NoCursor, error |-> "",
               stmts |-> << >>, old_conn |-> NoConn, arg |-> NoCursor]

\* what conn.commit() and conn.rollback() may raise: the class commit and
\* rollback catch, and one they do not
TxErrors == {"OperationalError", "InterfaceError"}

\* what cursor.fetchall() may raise
FetchErrors == {"OperationalError"}

\* the wrappers around execute
Wrappers == {"insert", "update", "query_all"}

\* None, and the value read off cursor c: c.lastrowid, c.rowcount, c.fetchall()
NoValue == [attr |-> "None", cursor |-> NoCursor]
ValueOf(attr, c) == [attr |-> attr, cursor |-> c]

\* a pending `return value`, a pending raise, or neither
NoPending == [kind |-> "none", value |-> NoValue, error |-> ""]
ReturnValue(v) == [kind |-> "return", value |-> v, error |-> ""]
RaiseError(e) == [kind |-> "raise", value |-> NoValue, error |-> e]

\* locals of insert / update / query_all: the local `cursor`, the pending
\* return or raise while the finally clause runs, what execute gave, and the
\* calls made on the cursor and the connection so far
NoWrap == [op |-> "none", pc |-> "idle", cursor |-> NoCursor,
           pending |-> NoPending, exec |-> NoDbResult, steps |-> << >>]

\* the caller's view of a finished insert / update / query_all / commit /
\* rollback, with self.conn as it was at entry
NoOut == [op |-> "none", kind |-> "none", value |-> NoValue, error |-> "",
          exec |-> NoDbResult, steps |-> << >>, old_conn |-> NoConn]

\* one line of the log: "[DB_TAG] thread=.. sql=.. error=.."; call stands for
\* the thread and sql fields
DbEvent(tag, c, e) == [tag |-> tag, call |-> c, error |-> e]

\* a second caller that has called nothing yet; preempted: one of the two
\* callers was suspended inside execute, so the operations were not serialized
NoPeer == [calls |-> 0, pc |-> "idle", op |-> NoOp, result |-> NoDbResult,
           preempted |-> FALSE]

DBInit ==
    /\ conn = NoConn
    /\ conns = << >>
    /\ cursors = << >>
    /\ db_log = << >>
    /\ db_calls = 0
    /\ db_pc = "idle"
    /\ db_op = NoOp
    /\ db_result = NoDbResult
    /\ closed = {}
    /\ tx_calls = 0
    /\ db_wrap = NoWrap
    /\ db_out = NoOut
    /\ db_peer = NoPeer

(***************************************************************************)
(* logs/analyze_logs.py: class LogAnalyzer and main.                       *)
(***************************************************************************)
\* a log line, by the parts of its text the analyzer looks at:
\*   ts      the leading timestamp: a time (1, 2, ...), NoTimestamp when the
\*           line does not start with one, BadTimestamp when its digits are
\*           not a date (strptime raises)
\*   tags    the bracketed tags whose field layout occurs in the text
\*   id      the text of id= / request_id=
\*   el      the text of elapsed=: milliseconds for a number, NotANumber for
\*           digits and dots that float() rejects ("1.2.3"), NoDigits for
\*           text that [\d.]+ does not match
\*   ac      the text of active_count=: a number, or NoDigits
NoTimestamp == 0
BadTimestamp == -1
NotANumber == -1
NoDigits == -2

\* the patterns of analyze_file, in the order it tries them
Patterns == <<"HTTP_START", "HTTP_END", "REQ_START", "REQ_END", "REQ_SLOW",
              "REQ_TIMEOUT">>

\* the patterns with an `elapsed=([\d.]+)s` group, which the handler hands
\* to float()
TimedPatterns == {"HTTP_END", "REQ_END", "REQ_SLOW", "REQ_TIMEOUT"}

Line(ts, tags, id, el, ac, url, caller) ==
    [ts |-> ts, tags |-> tags, id |-> id, el |-> el, ac |-> ac, url |-> url,
     caller |-> caller]

\* a Python dict: its keys in insertion order and the value of each key
EmptyDict == [keys |-> << >>, val |-> << >>]

\* `self.http_requests = {}` ... `self.concurrent_peak = 0`
EmptyAnalyzer ==
    [http_requests |-> EmptyDict, api_requests |-> EmptyDict,
     slow_requests |-> << >>, timeouts |-> << >>, concurrent_peak |-> 0]

\* no report printed
NoReport == [printed |-> FALSE]

\* the second run has not started
NoFirstRun == [pc |-> "none", analyzer |-> EmptyAnalyzer, report |-> NoReport]

LCInit ==
    /\ input = << >>
    /\ analyzer = EmptyAnalyzer
    /\ lc_pc = "scan"
    /\ lc_run = 1
    /\ lc_pos = 0
    /\ report = NoReport
    /\ first_run = NoFirstRun

Init ==
    /\ request_counter = 0
    /\ request_counter_lock = NoThread
    /\ active_requests = << >>
    /\ active_requests_lock = NoThread
    /\ log = << >>
    /\ wire = {}
    /\ pc = [t \in Threads |-> "idle"]
    /\ call = [t \in Threads |-> NoCall]
    /\ result = [t \in Threads |-> NoResult]
    /\ DBInit
    /\ LCInit

(***************************************************************************)
(* Helpers of auth_requests.                                               *)
(***************************************************************************)
\* a `with lock:` that excludes nobody
CanAcquireUnlocked(lock) == TRUE

\* `with lock:` enters only when no thread holds the lock
CanAcquire(lock) == lock = NoThread

\* `_request_counter += 1`
Increment(c) == c + 1

\* the length read after the insertion instead of before it
StartActiveCountAfterInsert(reg) == Cardinality(DOMAIN reg) + 1

\* `active_count = len(_active_requests)` before the insertion
StartActiveCount(reg) == Cardinality(DOMAIN reg)

\* `_active_requests[request_id] = {...}`
Register(reg, id, rec) ==
    [i \in (DOMAIN reg) \cup {id} |-> IF i = id THEN rec ELSE reg[i]]

\* `if request_id in _active_requests: del _active_requests[request_id]`
Unregister(reg, id) == [i \in (DOMAIN reg) \ {id} |-> reg[i]]

\* `active_count = len(_active_requests)` after the removal
EndActiveCount(reg) == Cardinality(DOMAIN reg)

\* the token check left out
TokenMissingIgnored(token) == FALSE

\* `if not g.user_token`
TokenMissing(token) == ~token

\* a chain whose else branch sends the request as well
SupportedMethodAny(m) == TRUE

\* the if/elif chain over method; its else branch raises
SupportedMethod(m) == m \in HttpMethods

\* the threshold compared with >=
IsSlowInclusive(elapsed) == elapsed >= SlowThresholdMs

\* `if elapsed > 2.0`
IsSlow(elapsed) == elapsed > SlowThresholdMs

\* the except clauses with ConnectionError tried before Timeout
FailureTagConnectionFirst(e) ==
    IF IsConnectionError(e) THEN "REQ_CONN_ERROR"
    ELSE IF IsTimeout(e) THEN "REQ_TIMEOUT"
    ELSE "REQ_EXCEPTION"

\* the except clauses, in their textual order
FailureTag(e) ==
    IF IsTimeout(e) THEN "REQ_TIMEOUT"
    ELSE IF IsConnectionError(e) THEN "REQ_CONN_ERROR"
    ELSE "REQ_EXCEPTION"

\* `raise` in an except clause re-raises the exception being handled
Reraise(e) == Raised(e)

\* `return response`
Return(response) == response

(***************************************************************************)
(* auth_requests, one action per step of a thread.  Steps that touch only  *)
(* the thread's own locals are taken together with the next step that      *)
(* touches shared state (a lock, the counter, the registry, the log, the   *)
(* network).                                                               *)
(***************************************************************************)
\* a caller enters auth_requests(method, url) with or without g.user_token
Call(t, m, tok) ==
    /\ pc[t] = "idle"
    /\ result[t] = NoResult
    /\ call' = [call EXCEPT ![t] = [NoCall EXCEPT !.method = m, !.token = tok]]
    /\ pc' = [pc EXCEPT ![t] = "lock_counter"]
    /\ UNCHANGED <<request_counter, request_counter_lock, active_requests,
                   active_requests_lock, log, wire, result>>
    /\ UNCHANGED <<db_vars, lc_vars>>

\* `with _request_counter_lock:`
AcquireCounterLock(t) ==
    /\ pc[t] = "lock_counter"
    /\ CanAcquire(request_counter_lock)
    /\ request_counter_lock' = t
    /\ pc' = [pc EXCEPT ![t] = "incr_load"]
    /\ UNCHANGED <<request_counter, active_requests, active_requests_lock,
                   log, wire, call, result>>
    /\ UNCHANGED <<db_vars, lc_vars>>

\* `_request_counter += 1`: the read
LoadCounter(t) ==
    /\ pc[t] = "incr_load"
    /\ call' = [call EXCEPT ![t].tmp = request_counter]
    /\ pc' = [pc EXCEPT ![t] = "incr_store"]
    /\ UNCHANGED <<request_counter, request_counter_lock, active_requests,
                   active_requests_lock, log, wire, result>>
    /\ UNCHANGED <<db_vars, lc_vars>>

\* `_request_counter += 1`: the write; `request_id = _request_counter`; unlock
StoreCounter(t) ==
    /\ pc[t] = "incr_store"
    /\ request_counter' = Increment(call[t].tmp)
    /\ call' = [call EXCEPT ![t].request_id = request_counter', ![t].tmp = 0]
    /\ request_counter_lock' = NoThread
    /\ pc' = [pc EXCEPT ![t] = "lock_active"]
    /\ UNCHANGED <<active_requests, active_requests_lock, log, wire, result>>
    /\ UNCHANGED <<db_vars, lc_vars>>

\* `with _active_requests_lock:` of the registration
AcquireActiveLock(t) ==
    /\ pc[t] = "lock_active"
    /\ CanAcquire(active_requests_lock)
    /\ active_requests_lock' = t
    /\ pc' = [pc EXCEPT ![t] = "read_len"]
    /\ UNCHANGED <<request_counter, request_counter_lock, active_requests,
                   log, wire, call, result>>
    /\ UNCHANGED <<db_vars, lc_vars>>

\* `active_count = len(_active_requests)`
ReadLen(t) ==
    /\ pc[t] = "read_len"
    /\ call' = [call EXCEPT ![t].active_count = StartActiveCount(active_requests)]
    /\ pc' = [pc EXCEPT ![t] = "insert"]
    /\ UNCHANGED <<request_counter, request_counter_lock, active_requests,
                   active_requests_lock, log, wire, result>>
    /\ UNCHANGED <<db_vars, lc_vars>>

\* the [REQ_START] line written inside the `with _active_requests_lock:`
\* block: the insertion does not end the block
InsertKeepsLock(t) ==
    /\ pc[t] = "insert"
    /\ active_requests' = Register(active_requests, call[t].request_id,
                                   [method |-> call[t].method, thread |-> t])
    /\ pc' = [pc EXCEPT ![t] = "log_start"]
    /\ UNCHANGED <<request_counter, request_counter_lock, active_requests_lock,
                   log, wire, call, result>>
    /\ UNCHANGED <<db_vars, lc_vars>>

\* `_active_requests[request_id] = {...}`; unlock
Insert(t) ==
    /\ pc[t] = "insert"
    /\ active_requests' = Register(active_requests, call[t].request_id,
                                   [method |-> call[t].method, thread |-> t])
    /\ active_requests_lock' = NoThread
    /\ pc' = [pc EXCEPT ![t] = "log_start"]
    /\ UNCHANGED <<request_counter, request_counter_lock, log, wire, call, result>>
    /\ UNCHANGED <<db_vars, lc_vars>>

\* logging.warning("[REQ_START] ...")
LogStart(t) ==
    /\ pc[t] = "log_start"
    /\ log' = Append(log, Event("REQ_START", call[t].request_id,
                                call[t].active_count, 0))
    /\ pc' = [pc EXCEPT ![t] = "check_token"]
    /\ UNCHANGED <<request_counter, request_counter_lock, active_requests,
                   active_requests_lock, wire, call, result>>
    /\ UNCHANGED <<db_vars, lc_vars>>

\* what the caller of auth_requests gets when the call ends with `outcome`
CallResult(t, outcome) ==
    [id |-> call[t].request_id, method |-> call[t].method,
     token |-> call[t].token, net |-> call[t].net, outcome |-> outcome]

\* `if not g.user_token:` log REQ_ERROR and raise Exception("no api token")
CheckTokenMissing(t) ==
    /\ pc[t] = "check_token"
    /\ TokenMissing(call[t].token)
    /\ log' = Append(log, Event("REQ_ERROR", call[t].request_id, 0, 0))
    /\ result' = [result EXCEPT ![t] = CallResult(t, Raised("no api token"))]
    /\ call' = [call EXCEPT ![t] = NoCall]
    /\ pc' = [pc EXCEPT ![t] = "idle"]
    /\ UNCHANGED <<request_counter, request_counter_lock, active_requests,
                   active_requests_lock, wire>>
    /\ UNCHANGED <<db_vars, lc_vars>>

\* the token is there and the method is one of the if/elif chain:
\* requests.post/get/put/delete(...) is entered and the request goes out
DispatchRequest(t) ==
    /\ pc[t] = "check_token"
    /\ ~TokenMissing(call[t].token)
    /\ SupportedMethod(call[t].method)
    /\ wire' = wire \cup {call[t].request_id}
    /\ pc' = [pc EXCEPT ![t] = "in_network"]
    /\ UNCHANGED <<request_counter, request_counter_lock, active_requests,
                   active_requests_lock, log, call, result>>
    /\ UNCHANGED <<db_vars, lc_vars>>

\* the except clause that matches e logs its tag, then `raise`
HandleException(t, e) ==
    /\ log' = Append(log, Event(FailureTag(e), call[t].request_id, 0, 0))
    /\ pc' = [pc EXCEPT ![t] = "lock_finally"]

\* the token is there, the else branch raises Exception("invalid http method"),
\* which `except Exception` handles
DispatchInvalid(t) ==
    /\ pc[t] = "check_token"
    /\ ~TokenMissing(call[t].token)
    /\ ~SupportedMethod(call[t].method)
    /\ HandleException(t, "invalid http method")
    /\ call' = [call EXCEPT ![t].pending = Reraise("invalid http method")]
    /\ UNCHANGED <<request_counter, request_counter_lock, active_requests,
                   active_requests_lock, wire, result>>
    /\ UNCHANGED <<db_vars, lc_vars>>

\* the network call returns a response; `elapsed = time.time() - start_time`;
\* logging.warning("[REQ_SUCCESS] ..."), then `if elapsed > 2.0`
NetRespond(t, status, el) ==
    /\ pc[t] = "in_network"
    /\ log' = Append(log, Event("REQ_SUCCESS", call[t].request_id, 0, el))
    /\ IF IsSlow(el)
       THEN /\ pc' = [pc EXCEPT ![t] = "log_slow"]
            /\ call' = [call EXCEPT ![t].net = Response(status), ![t].elapsed = el]
       ELSE /\ pc' = [pc EXCEPT ![t] = "lock_finally"]
            /\ call' = [call EXCEPT ![t].net = Response(status),
                                    ![t].pending = Return(Response(status))]
    /\ UNCHANGED <<request_counter, request_counter_lock, active_requests,
                   active_requests_lock, wire, result>>
    /\ UNCHANGED <<db_vars, lc_vars>>

\* logging.error("[REQ_SLOW] ..."), then `return response`
LogSlow(t) ==
    /\ pc[t] = "log_slow"
    /\ log' = Append(log, Event("REQ_SLOW", call[t].request_id, 0, call[t].elapsed))
    /\ call' = [call EXCEPT ![t].pending = Return(call[t].net), ![t].elapsed = 0]
    /\ pc' = [pc EXCEPT ![t] = "lock_finally"]
    /\ UNCHANGED <<request_counter, request_counter_lock, active_requests,
                   active_requests_lock, wire, result>>
    /\ UNCHANGED <<db_vars, lc_vars>>

\* the network call raises e, which the first matching except clause handles
NetFail(t, e) ==
    /\ pc[t] = "in_network"
    /\ HandleException(t, e)
    /\ call' = [call EXCEPT ![t].net = Raised(e), ![t].pending = Reraise(e)]
    /\ UNCHANGED <<request_counter, request_counter_lock, active_requests,
                   active_requests_lock, wire, result>>
    /\ UNCHANGED <<db_vars, lc_vars>>

\* finally: `with _active_requests_lock:`
AcquireFinallyLock(t) ==
    /\ pc[t] = "lock_finally"
    /\ CanAcquire(active_requests_lock)
    /\ active_requests_lock' = t
    /\ pc' = [pc EXCEPT ![t] = "remove"]
    /\ UNCHANGED <<request_counter, request_counter_lock, active_requests,
                   log, wire, call, result>>
    /\ UNCHANGED <<db_vars, lc_vars>>

\* delete the record, `active_count = len(_active_requests)`; unlock
Remove(t) ==
    /\ pc[t] = "remove"
    /\ active_requests' = Unregister(active_requests, call[t].request_id)
    /\ call' = [call EXCEPT ![t].active_count = EndActiveCount(active_requests')]
    /\ active_requests_lock' = NoThread
    /\ pc' = [pc EXCEPT ![t] = "log_end"]
    /\ UNCHANGED <<request_counter, request_counter_lock, log, wire, result>>
    /\ UNCHANGED <<db_vars, lc_vars>>

\* logging.warning("[REQ_END] ..."), then the pending return or raise reaches
\* the caller
LogEnd(t) ==
    /\ pc[t] = "log_end"
    /\ log' = Append(log, Event("REQ_END", call[t].request_id,
                                call[t].active_count, 0))
    /\ result' = [result EXCEPT ![t] = CallResult(t, call[t].pending)]
    /\ call' = [call EXCEPT ![t] = NoCall]
    /\ pc' = [pc EXCEPT ![t] = "idle"]
    /\ UNCHANGED <<request_counter, request_counter_lock, active_requests,
                   active_requests_lock, wire>>
    /\ UNCHANGED <<db_vars, lc_vars>>

Next ==
    \E t \in Threads :
        \/ \E m \in Methods, tok \in BOOLEAN : Call(t, m, tok)
        \/ AcquireCounterLock(t)
        \/ LoadCounter(t)
        \/ StoreCounter(t)
        \/ AcquireActiveLock(t)
        \/ ReadLen(t)
        \/ Insert(t)
        \/ LogStart(t)
        \/ CheckTokenMissing(t)
        \/ DispatchRequest(t)
        \/ DispatchInvalid(t)
        \/ \E s \in StatusCodes, el \in ElapsedSamples : NetRespond(t, s, el)
        \/ \E e \in NetErrors : NetFail(t, e)
        \/ LogSlow(t)
        \/ AcquireFinallyLock(t)
        \/ Remove(t)
        \/ LogEnd(t)

Spec == Init /\ [][Next]_vars

(***************************************************************************)
(* DB.execute, called by one caller at a time.                             *)
(***************************************************************************)
\* `except (AttributeError, MySQLdb.OperationalError)`
IsTransient(e) == e \in {"AttributeError", "OperationalError"}

\* `if elapsed > 0.1`
IsDbSlow(elapsed) == elapsed > DbSlowThresholdMs

\* the connection connect_db makes next, and the cursor conn.cursor() makes next
NewConn == Len(conns) + 1
NewCursor == Len(cursors) + 1

\* a statement can only succeed on an open cursor whose connection is open
CursorUsable(c) == conns[cursors[c]] = "open" /\ c \notin closed

\* the old connection dropped without being closed
CloseConnSkipped(cs, c) == cs

\* `self.conn and self.conn.close()`
CloseConn(cs, c) == IF c = NoConn THEN cs ELSE [cs EXCEPT ![c] = "closed"]

\* one cursor.execute call: the cursor it ran on, "ok" or what it raised, and
\* where in execute it was made: "first_execute" (the try block) or "retry"
\* (the except clause)
Stmt(c, o) == [cursor |-> c, outcome |-> o, at |-> db_pc]

\* every exception treated as a dead connection
HandlerOfReconnectAlways(e) == "log_reconnect"

\* the except clause an exception raised in the try block reaches
HandlerOf(e) == IF IsTransient(e) THEN "log_reconnect" ELSE "log_error"

\* the cursor the retry path hands back: `cursor = self.get_conn().cursor()`
RetryCursor(old, new) == new

\* a handler that classifies the failure of its own retry again
RetryHandledTransient(e) == IsTransient(e)

\* the retry runs inside the except clause, outside the try block: no except
\* clause of execute handles what it raises
RetryHandled(e) == FALSE

\* an execute that returns its cursor whatever happened
DbFinishReturns(kind, cur, e, stmts) ==
    /\ db_result' = [call |-> db_calls, kind |-> "return", cursor |-> cur,
                     error |-> e, stmts |-> stmts, old_conn |-> db_op.old_conn,
                     arg |-> db_op.arg]
    /\ db_op' = NoOp
    /\ db_pc' = "idle"

\* execute ends: `return cursor`, or an exception leaves it
DbFinish(kind, cur, e, stmts) ==
    /\ db_result' = [call |-> db_calls, kind |-> kind, cursor |-> cur, error |-> e,
                     stmts |-> stmts, old_conn |-> db_op.old_conn,
                     arg |-> db_op.arg]
    /\ db_op' = NoOp
    /\ db_pc' = "idle"

\* execute(sql), or execute(sql, cursor=c), is entered: `cursor =
\* kw.pop('cursor', None)`; no other operation of the instance is running
EnterExecute(arg) ==
    /\ db_pc = "idle"
    /\ db_wrap.pc = "idle"
    /\ db_calls < MaxExecutes
    /\ db_calls' = db_calls + 1
    /\ db_op' = [NoOp EXCEPT !.arg = arg, !.cursor = arg, !.old_conn = conn]
    /\ db_result' = NoDbResult
    /\ db_out' = NoOut
    /\ db_pc' = "first_cursor"
    /\ UNCHANGED <<conn, conns, cursors, db_log>>

\* a caller enters execute(sql), or execute(sql, cursor=c) with a cursor it
\* got from an earlier execute
Execute(arg) ==
    /\ EnterExecute(arg)
    /\ UNCHANGED <<closed, tx_calls, db_wrap, db_peer>>
    /\ UNCHANGED <<auth_vars, lc_vars>>

\* `cursor = cursor or ...`: the caller's cursor is used
FirstCursorGiven ==
    /\ db_pc = "first_cursor"
    /\ db_op.arg # NoCursor
    /\ db_pc' = "first_execute"
    /\ UNCHANGED <<conn, conns, cursors, db_log, db_calls, db_op, db_result>>
    /\ UNCHANGED <<auth_vars, wrap_vars, lc_vars>>

\* `self.get_conn().cursor()` with self.conn set
FirstCursorOpen ==
    /\ db_pc = "first_cursor"
    /\ db_op.arg = NoCursor
    /\ conn # NoConn
    /\ cursors' = Append(cursors, conn)
    /\ db_op' = [db_op EXCEPT !.cursor = NewCursor]
    /\ db_pc' = "first_execute"
    /\ UNCHANGED <<conn, conns, db_log, db_calls, db_result>>
    /\ UNCHANGED <<auth_vars, wrap_vars, lc_vars>>

\* `self.get_conn().cursor()` with self.conn None: connect_db connects
FirstCursorConnect ==
    /\ db_pc = "first_cursor"
    /\ db_op.arg = NoCursor
    /\ conn = NoConn
    /\ conns' = Append(conns, "open")
    /\ conn' = NewConn
    /\ cursors' = Append(cursors, NewConn)
    /\ db_op' = [db_op EXCEPT !.cursor = NewCursor]
    /\ db_pc' = "first_execute"
    /\ UNCHANGED <<db_log, db_calls, db_result>>
    /\ UNCHANGED <<auth_vars, wrap_vars, lc_vars>>

\* connect_db fails and returns None: None.cursor() raises AttributeError
FirstCursorConnectFails ==
    /\ db_pc = "first_cursor"
    /\ db_op.arg = NoCursor
    /\ conn = NoConn
    /\ db_op' = [db_op EXCEPT !.error = "AttributeError"]
    /\ db_pc' = HandlerOf("AttributeError")
    /\ UNCHANGED <<conn, conns, cursors, db_log, db_calls, db_result>>
    /\ UNCHANGED <<auth_vars, wrap_vars, lc_vars>>

\* `cursor.execute(*a, **kw)` in the try block
FirstExecute(o) ==
    /\ db_pc = "first_execute"
    /\ o = "ok" => CursorUsable(db_op.cursor)
    /\ IF o = "ok"
       THEN /\ db_op' = [db_op EXCEPT !.stmts = Append(@, Stmt(db_op.cursor, o))]
            /\ db_pc' = "timing"
       ELSE /\ db_op' = [db_op EXCEPT !.stmts = Append(@, Stmt(db_op.cursor, o)),
                                      !.error = o]
            /\ db_pc' = HandlerOf(o)
    /\ UNCHANGED <<conn, conns, cursors, db_log, db_calls, db_result>>
    /\ UNCHANGED <<auth_vars, wrap_vars, lc_vars>>

\* `if elapsed > 0.1:` log DB_SLOW; then `return cursor`
ExecuteTimed(el) ==
    /\ db_pc = "timing"
    /\ db_log' = IF IsDbSlow(el) THEN Append(db_log, DbEvent("DB_SLOW", db_calls, ""))
                  ELSE db_log
    /\ DbFinish("return", db_op.cursor, "", db_op.stmts)
    /\ UNCHANGED <<conn, conns, cursors, db_calls>>
    /\ UNCHANGED <<auth_vars, wrap_vars, lc_vars>>

\* logging.error("[DB_RECONNECT] ...")
LogReconnect ==
    /\ db_pc = "log_reconnect"
    /\ db_log' = Append(db_log, DbEvent("DB_RECONNECT", db_calls, db_op.error))
    /\ db_pc' = "close_old"
    /\ UNCHANGED <<conn, conns, cursors, db_calls, db_op, db_result>>
    /\ UNCHANGED <<auth_vars, wrap_vars, lc_vars>>

\* the old connection closed and left in self.conn
CloseOldKeepsConn ==
    /\ db_pc = "close_old"
    /\ conns' = CloseConn(conns, conn)
    /\ db_pc' = "reconnect"
    /\ UNCHANGED <<conn, cursors, db_log, db_calls, db_op, db_result>>
    /\ UNCHANGED <<auth_vars, wrap_vars, lc_vars>>

\* `self.conn and self.conn.close()`; `self.conn = None`
CloseOld ==
    /\ db_pc = "close_old"
    /\ conns' = CloseConn(conns, conn)
    /\ conn' = NoConn
    /\ db_pc' = "reconnect"
    /\ UNCHANGED <<cursors, db_log, db_calls, db_op, db_result>>
    /\ UNCHANGED <<auth_vars, wrap_vars, lc_vars>>

\* self.conn.close() raises (the driver refuses to close a connection it
\* already gave up): the error leaves execute, self.conn stays as it is
CloseOldFails ==
    /\ db_pc = "close_old"
    /\ conn # NoConn
    /\ DbFinish("raise", NoCursor, "Error", db_op.stmts)
    /\ UNCHANGED <<conn, conns, cursors, db_log, db_calls>>
    /\ UNCHANGED <<auth_vars, wrap_vars, lc_vars>>

\* `cursor = self.get_conn().cursor()`: connect_db connects
Reconnect ==
    /\ db_pc = "reconnect"
    /\ conns' = Append(conns, "open")
    /\ conn' = NewConn
    /\ cursors' = Append(cursors, NewConn)
    /\ db_op' = [db_op EXCEPT !.cursor = RetryCursor(@, NewCursor)]
    /\ db_pc' = "retry"
    /\ UNCHANGED <<db_log, db_calls, db_result>>
    /\ UNCHANGED <<auth_vars, wrap_vars, lc_vars>>

\* connect_db fails: None.cursor() raises AttributeError out of the handler
ReconnectFails ==
    /\ db_pc = "reconnect"
    /\ DbFinish("raise", NoCursor, "AttributeError", db_op.stmts)
    /\ UNCHANGED <<conn, conns, cursors, db_log, db_calls>>
    /\ UNCHANGED <<auth_vars, wrap_vars, lc_vars>>

\* `cursor.execute(*a, **kw)` in the handler, then `return cursor`; what it
\* raises leaves execute
Retry(o) ==
    /\ db_pc = "retry"
    /\ o = "ok" => CursorUsable(db_op.cursor)
    /\ IF o = "ok"
       THEN DbFinish("return", db_op.cursor, "",
                     Append(db_op.stmts, Stmt(db_op.cursor, o)))
       ELSE IF RetryHandled(o)
       THEN /\ db_op' = [db_op EXCEPT !.stmts = Append(@, Stmt(db_op.cursor, o)),
                                      !.error = o]
            /\ db_pc' = HandlerOf(o)
            /\ UNCHANGED db_result
       ELSE DbFinish("raise", NoCursor, o,
                     Append(db_op.stmts, Stmt(db_op.cursor, o)))
    /\ UNCHANGED <<conn, conns, cursors, db_log, db_calls>>
    /\ UNCHANGED <<auth_vars, wrap_vars, lc_vars>>

\* `except Exception`: logging.error("[DB_ERROR] ..."), then `raise`
LogError ==
    /\ db_pc = "log_error"
    /\ db_log' = Append(db_log, DbEvent("DB_ERROR", db_calls, db_op.error))
    /\ DbFinish("raise", NoCursor, db_op.error, db_op.stmts)
    /\ UNCHANGED <<conn, conns, cursors, db_calls>>
    /\ UNCHANGED <<auth_vars, wrap_vars, lc_vars>>

(***************************************************************************)
(* DB.commit, DB.rollback and the wrappers DB.insert, DB.update and        *)
(* DB.query_all, called by one caller at a time.                           *)
(***************************************************************************)
\* `except MySQLdb.OperationalError:` of commit and rollback
TxSwallows(e) == e = "OperationalError"

\* an operational error swallowed with self.conn kept
TxConnKept(c, o) == c

\* self.conn after commit() / rollback() whose conn.commit() / conn.rollback()
\* ended with o: `if self.conn:`, and `self.conn = None` in the except clause
TxConnAfter(c, o) == IF c # NoConn /\ o # "ok" /\ TxSwallows(o) THEN NoConn ELSE c

\* commit() / rollback() raises what conn.commit() / conn.rollback() raised
TxRaises(c, o) == c # NoConn /\ o # "ok" /\ ~TxSwallows(o)

\* one call made by commit() / rollback(): none when self.conn is None
TxStep(name, o) ==
    [step |-> name, outcome |-> IF conn = NoConn THEN "skipped" ELSE o, on |-> conn]

\* an integrity error caught by no wrapper
IntegrityCaughtNowhere(op, e) == FALSE

\* `except MySQLdb.IntegrityError:` of insert and update; query_all has none
IntegrityCaught(op, e) == op \in {"insert", "update"} /\ e = "IntegrityError"

\* the attribute of the cursor a wrapper returns
AttributeOf(op) ==
    IF op = "insert" THEN "lastrowid"
    ELSE IF op = "update" THEN "rowcount"
    ELSE "fetchall"

\* a wrapper whose `cursor = self.execute(...)` keeps another cursor
WrapperCursorFirst(exec) == exec.stmts[1].cursor

\* `cursor = self.execute(*a, **kw)`
WrapperCursor(exec) == exec.cursor

\* a caller enters insert / update / query_all, which sets `cursor = None` and
\* calls self.execute(*a, **kw)
WrapperCall(op, arg) ==
    /\ EnterExecute(arg)
    /\ db_wrap' = [NoWrap EXCEPT !.op = op, !.pc = "in_execute"]
    /\ UNCHANGED <<closed, tx_calls, db_peer>>
    /\ UNCHANGED <<auth_vars, lc_vars>>

DBInsert(arg) == WrapperCall("insert", arg)

DBUpdate(arg) == WrapperCall("update", arg)

DBQueryAll(arg) == WrapperCall("query_all", arg)

\* execute returned: `cursor = self.execute(*a, **kw)`; insert then reads
\* cursor.lastrowid and calls commit, update calls commit, query_all fetches
ExecuteReturned ==
    /\ db_wrap.pc = "in_execute"
    /\ db_pc = "idle"
    /\ db_result.kind = "return"
    /\ db_wrap' = [db_wrap EXCEPT !.cursor = WrapperCursor(db_result),
                                  !.exec = db_result,
                                  !.pc = IF db_wrap.op = "query_all"
                                         THEN "fetchall" ELSE "commit"]
    /\ db_result' = NoDbResult
    /\ UNCHANGED <<conn, conns, cursors, db_log, db_calls, db_pc, db_op,
                   closed, tx_calls, db_out, db_peer>>
    /\ UNCHANGED <<auth_vars, lc_vars>>

\* execute raised: the local cursor stays None; insert and update catch an
\* integrity error, every other error is on its way out through finally
ExecuteRaised ==
    /\ db_wrap.pc = "in_execute"
    /\ db_pc = "idle"
    /\ db_result.kind = "raise"
    /\ db_wrap' = [db_wrap EXCEPT
                     !.exec = db_result,
                     !.pending = IF IntegrityCaught(db_wrap.op, db_result.error)
                                 THEN NoPending ELSE RaiseError(db_result.error),
                     !.pc = IF IntegrityCaught(db_wrap.op, db_result.error)
                            THEN "rollback" ELSE "finally"]
    /\ db_result' = NoDbResult
    /\ UNCHANGED <<conn, conns, cursors, db_log, db_calls, db_pc, db_op,
                   closed, tx_calls, db_out, db_peer>>
    /\ UNCHANGED <<auth_vars, lc_vars>>

\* `self.commit()` in insert / update, then `return row_id` / `return
\* row_count`; an error commit does not swallow leaves the try block
WrapCommit(o) ==
    /\ db_wrap.pc = "commit"
    /\ conn = NoConn => o = "ok"
    /\ conn' = TxConnAfter(conn, o)
    /\ db_wrap' = [db_wrap EXCEPT
                     !.steps = Append(@, TxStep("commit", o)),
                     !.pending = IF ~TxRaises(conn, o)
                                 THEN ReturnValue(ValueOf(AttributeOf(db_wrap.op),
                                                          db_wrap.cursor))
                                 ELSE IF IntegrityCaught(db_wrap.op, o)
                                 THEN NoPending ELSE RaiseError(o),
                     !.pc = IF TxRaises(conn, o) /\ IntegrityCaught(db_wrap.op, o)
                            THEN "rollback" ELSE "finally"]
    /\ UNCHANGED <<conns, cursors, db_log, db_calls, db_pc, db_op, db_result,
                   closed, tx_calls, db_out, db_peer>>
    /\ UNCHANGED <<auth_vars, lc_vars>>

\* `except MySQLdb.IntegrityError: self.rollback()`, then the wrapper falls
\* off its end and returns None; an error rollback does not swallow leaves
\* the except clause
WrapRollback(o) ==
    /\ db_wrap.pc = "rollback"
    /\ conn = NoConn => o = "ok"
    /\ conn' = TxConnAfter(conn, o)
    /\ db_wrap' = [db_wrap EXCEPT
                     !.steps = Append(@, TxStep("rollback", o)),
                     !.pending = IF TxRaises(conn, o)
                                 THEN RaiseError(o) ELSE ReturnValue(NoValue),
                     !.pc = "finally"]
    /\ UNCHANGED <<conns, cursors, db_log, db_calls, db_pc, db_op, db_result,
                   closed, tx_calls, db_out, db_peer>>
    /\ UNCHANGED <<auth_vars, lc_vars>>

\* `return cursor.fetchall()` in query_all
Fetchall(o) ==
    /\ db_wrap.pc = "fetchall"
    /\ db_wrap' = [db_wrap EXCEPT
                     !.steps = Append(@, [step |-> "fetchall", outcome |-> o,
                                          on |-> db_wrap.cursor]),
                     !.pending = IF o = "ok"
                                 THEN ReturnValue(ValueOf(AttributeOf(db_wrap.op),
                                                          db_wrap.cursor))
                                 ELSE RaiseError(o),
                     !.pc = "finally"]
    /\ UNCHANGED <<conn, conns, cursors, db_log, db_calls, db_pc, db_op,
                   db_result, closed, tx_calls, db_out, db_peer>>
    /\ UNCHANGED <<auth_vars, lc_vars>>

\* `finally: cursor and cursor.close()`, then the pending return or raise
\* reaches the caller
WrapFinally ==
    /\ db_wrap.pc = "finally"
    /\ closed' = IF db_wrap.cursor # NoCursor
                 THEN closed \cup {db_wrap.cursor} ELSE closed
    /\ db_out' = [op |-> db_wrap.op, kind |-> db_wrap.pending.kind,
                  value |-> db_wrap.pending.value,
                  error |-> db_wrap.pending.error,
                  exec |-> db_wrap.exec,
                  steps |-> IF db_wrap.cursor # NoCursor
                            THEN Append(db_wrap.steps,
                                        [step |-> "close", outcome |-> "ok",
                                         on |-> db_wrap.cursor])
                            ELSE db_wrap.steps,
                  old_conn |-> db_wrap.exec.old_conn]
    /\ db_wrap' = NoWrap
    /\ UNCHANGED <<conn, conns, cursors, db_log, db_calls, db_pc, db_op,
                   db_result, tx_calls, db_peer>>
    /\ UNCHANGED <<auth_vars, lc_vars>>

\* a caller calls commit() or rollback() while no other operation runs
TxCall(name, o) ==
    /\ db_pc = "idle"
    /\ db_wrap.pc = "idle"
    /\ tx_calls < MaxTxCalls
    /\ conn = NoConn => o = "ok"
    /\ tx_calls' = tx_calls + 1
    /\ conn' = TxConnAfter(conn, o)
    /\ db_result' = NoDbResult
    /\ db_out' = [op |-> name,
                  kind |-> IF TxRaises(conn, o) THEN "raise" ELSE "return",
                  value |-> NoValue,
                  error |-> IF TxRaises(conn, o) THEN o ELSE "",
                  exec |-> NoDbResult,
                  steps |-> <<TxStep(name, o)>>,
                  old_conn |-> conn]
    /\ UNCHANGED <<conns, cursors, db_log, db_calls, db_pc, db_op, closed, db_wrap,
                   db_peer>>
    /\ UNCHANGED <<auth_vars, lc_vars>>

DBCommit(o) == TxCall("commit", o)

DBRollback(o) == TxCall("rollback", o)

NextDB ==
    \/ \E arg \in {NoCursor} \cup DOMAIN cursors : Execute(arg)
    \/ FirstCursorGiven
    \/ FirstCursorOpen
    \/ FirstCursorConnect
    \/ FirstCursorConnectFails
    \/ \E o \in {"ok"} \cup DbErrors : FirstExecute(o)
    \/ \E el \in DbElapsedSamples : ExecuteTimed(el)
    \/ LogReconnect
    \/ CloseOld
    \/ CloseOldFails
    \/ Reconnect
    \/ ReconnectFails
    \/ \E o \in {"ok"} \cup DbErrors : Retry(o)
    \/ LogError
    \/ \E arg \in {NoCursor} \cup DOMAIN cursors : DBInsert(arg)
    \/ \E arg \in {NoCursor} \cup DOMAIN cursors : DBUpdate(arg)
    \/ \E arg \in {NoCursor} \cup DOMAIN cursors : DBQueryAll(arg)
    \/ ExecuteReturned
    \/ ExecuteRaised
    \/ \E o \in {"ok"} \cup TxErrors : WrapCommit(o)
    \/ \E o \in {"ok"} \cup TxErrors : WrapRollback(o)
    \/ \E o \in {"ok"} \cup FetchErrors : Fetchall(o)
    \/ WrapFinally
    \/ \E o \in {"ok"} \cup TxErrors : DBCommit(o)
    \/ \E o \in {"ok"} \cup TxErrors : DBRollback(o)

SpecDB == Init /\ [][NextDB]_vars

(***************************************************************************)
(* DB.execute, called by two callers of one instance.  The steps above are *)
(* those of the caller that runs; get_conn is taken apart into its test    *)
(* and its connect, between which the other caller may run.                *)
(***************************************************************************)
\* where get_conn was called from, and where execute goes on after it
InGetConn == {"first_cursor", "reconnect"}
InConnectDb == {"first_connect", "re_connect"}

\* the interpreter may suspend the running thread between any two steps
CanSwitch(at) == TRUE

\* the running thread is suspended and the other caller goes on where it was
SwitchCaller ==
    /\ CanSwitch(db_pc)
    /\ db_wrap.pc = "idle"
    /\ db_peer' = [calls |-> db_calls, pc |-> db_pc, op |-> db_op,
                   result |-> db_result,
                   preempted |-> db_peer.preempted \/ db_pc # "idle"]
    /\ db_calls' = db_peer.calls
    /\ db_pc' = db_peer.pc
    /\ db_op' = db_peer.op
    /\ db_result' = db_peer.result
    /\ UNCHANGED <<conn, conns, cursors, db_log, closed, tx_calls, db_wrap, db_out>>
    /\ UNCHANGED <<auth_vars, lc_vars>>

\* get_conn: `if self.conn is None:` holds, connect_db is entered
ConnMissing ==
    /\ db_pc \in InGetConn
    /\ db_pc = "first_cursor" => db_op.arg = NoCursor
    /\ conn = NoConn
    /\ db_pc' = IF db_pc = "first_cursor" THEN "first_connect" ELSE "re_connect"
    /\ UNCHANGED <<conn, conns, cursors, db_log, db_calls, db_op, db_result>>
    /\ UNCHANGED <<auth_vars, wrap_vars, lc_vars>>

\* get_conn in the handler finds self.conn set again, by the other caller:
\* `cursor = self.get_conn().cursor()` opens a cursor on that connection
ConnShared ==
    /\ db_pc = "reconnect"
    /\ conn # NoConn
    /\ cursors' = Append(cursors, conn)
    /\ db_op' = [db_op EXCEPT !.cursor = RetryCursor(@, NewCursor)]
    /\ db_pc' = "retry"
    /\ UNCHANGED <<conn, conns, db_log, db_calls, db_result>>
    /\ UNCHANGED <<auth_vars, wrap_vars, lc_vars>>

\* connect_db returns a connection: `self.conn = connect_db(...)`, whatever
\* self.conn holds by now; `return self.conn`, and `.cursor()` on it
Connects ==
    /\ db_pc \in InConnectDb
    /\ conns' = Append(conns, "open")
    /\ conn' = NewConn
    /\ cursors' = Append(cursors, NewConn)
    /\ db_op' = [db_op EXCEPT !.cursor = NewCursor]
    /\ db_pc' = IF db_pc = "first_connect" THEN "first_execute" ELSE "retry"
    /\ UNCHANGED <<db_log, db_calls, db_result>>
    /\ UNCHANGED <<auth_vars, wrap_vars, lc_vars>>

\* connect_db returns None: `self.conn = None`, and None.cursor() raises
\* AttributeError, in the try block or out of the handler
ConnectFails ==
    /\ db_pc \in InConnectDb
    /\ conn' = NoConn
    /\ IF db_pc = "first_connect"
       THEN /\ db_op' = [db_op EXCEPT !.error = "AttributeError"]
            /\ db_pc' = HandlerOf("AttributeError")
            /\ UNCHANGED db_result
       ELSE DbFinish("raise", NoCursor, "AttributeError", db_op.stmts)
    /\ UNCHANGED <<conns, cursors, db_log, db_calls>>
    /\ UNCHANGED <<auth_vars, wrap_vars, lc_vars>>

\* one of the two callers enters execute; MaxExecutes bounds the calls of
\* both together
ExecuteBy(arg) ==
    /\ db_calls + db_peer.calls < MaxExecutes
    /\ Execute(arg)

NextDB2 ==
    \/ \E arg \in {NoCursor} \cup DOMAIN cursors : ExecuteBy(arg)
    \/ FirstCursorGiven
    \/ FirstCursorOpen
    \/ ConnMissing
    \/ ConnShared
    \/ Connects
    \/ ConnectFails
    \/ \E o \in {"ok"} \cup DbErrors : FirstExecute(o)
    \/ \E el \in DbElapsedSamples : ExecuteTimed(el)
    \/ LogReconnect
    \/ CloseOld
    \/ CloseOldFails
    \/ \E o \in {"ok"} \cup DbErrors : Retry(o)
    \/ LogError
    \/ SwitchCaller

SpecDB2 == Init /\ [][NextDB2]_vars

(***************************************************************************)
(* LogAnalyzer: one line of analyze_file.                                  *)
(***************************************************************************)
\* `d[k] = v`: a new key goes last, an old key keeps its place
DictSet(d, k, v) ==
    [keys |-> IF k \in DOMAIN d.val THEN d.keys ELSE Append(d.keys, k),
     val |-> [x \in (DOMAIN d.val) \cup {k} |-> IF x = k THEN v ELSE d.val[x]]]

\* `k in d`
DictHas(d, k) == k \in DOMAIN d.val

\* `d.values()`
DictValues(d) == [i \in 1..Len(d.keys) |-> d.val[d.keys[i]]]

\* parse_line: None unless the line starts with digits in the timestamp
\* layout that strptime accepts as a date
Parsed(line) == line.ts # NoTimestamp /\ line.ts # BadTimestamp

\* re.search of pattern p in the line: the tag with its field layout must
\* occur; ([\d.]+) needs digits or dots after elapsed=, (\d+) needs digits
\* after active_count=
Matches(line, p) ==
    /\ p \in line.tags
    /\ p \in TimedPatterns => line.el # NoDigits
    /\ p = "REQ_START" => line.ac # NoDigits

\* the patterns tried in the reverse order: the last pattern of the chain
\* that matches
FirstMatchLast(line) ==
    LET ms == {i \in DOMAIN Patterns : Matches(line, Patterns[i])}
    IN  IF ms = {} THEN "none"
        ELSE Patterns[CHOOSE i \in ms : \A j \in ms : j <= i]

\* the if/continue chain of analyze_file: the first pattern that matches
FirstMatch(line) ==
    LET ms == {i \in DOMAIN Patterns : Matches(line, Patterns[i])}
    IN  IF ms = {} THEN "none"
        ELSE Patterns[CHOOSE i \in ms : \A j \in ms : i <= j]

\* float(text) raises ValueError for digits and dots that are not a number
FloatRaises(el) == el = NotANumber

\* float(text), in milliseconds
ToFloat(el) == el

\* int(text) of a (\d+) group
ToInt(ac) == ac

\* analyze_http_start
AnalyzeHttpStart(a, line) ==
    [a EXCEPT !.http_requests =
        DictSet(@, line.id, [start |-> line.ts, has_end |-> FALSE, end |-> 0,
                             elapsed |-> 0])]

\* analyze_http_end, after its float(): `if request_id in self.http_requests`
AnalyzeHttpEnd(a, line) ==
    IF DictHas(a.http_requests, line.id)
    THEN [a EXCEPT !.http_requests.val[line.id] =
             [@ EXCEPT !.has_end = TRUE, !.end = line.ts,
                       !.elapsed = ToFloat(line.el)]]
    ELSE a

\* analyze_req_start with `self.concurrent_peak = active_count` in place of
\* the comparison
AnalyzeReqStartLastCount(a, line) ==
    [a EXCEPT !.api_requests =
                 DictSet(@, line.id,
                         [start |-> line.ts, url |-> line.url,
                          caller |-> line.caller,
                          active_count_start |-> ToInt(line.ac),
                          has_end |-> FALSE, end |-> 0, elapsed |-> 0]),
              !.concurrent_peak = ToInt(line.ac)]

\* analyze_req_start
AnalyzeReqStart(a, line) ==
    [a EXCEPT !.api_requests =
                 DictSet(@, line.id,
                         [start |-> line.ts, url |-> line.url,
                          caller |-> line.caller,
                          active_count_start |-> ToInt(line.ac),
                          has_end |-> FALSE, end |-> 0, elapsed |-> 0]),
              !.concurrent_peak =
                 IF ToInt(line.ac) > @ THEN ToInt(line.ac) ELSE @]

\* analyze_req_end, after its float(): `if req_id in self.api_requests`
AnalyzeReqEnd(a, line) ==
    IF DictHas(a.api_requests, line.id)
    THEN [a EXCEPT !.api_requests.val[line.id] =
             [@ EXCEPT !.has_end = TRUE, !.end = line.ts,
                       !.elapsed = ToFloat(line.el)]]
    ELSE a

\* analyze_slow
AnalyzeSlow(a, line) ==
    [a EXCEPT !.slow_requests =
        Append(@, [req_id |-> line.id, timestamp |-> line.ts,
                   elapsed |-> ToFloat(line.el), caller |-> line.caller])]

\* analyze_timeout that records only the timeouts of calls in api_requests
AnalyzeTimeoutKnownOnly(a, line) ==
    IF DictHas(a.api_requests, line.id)
    THEN [a EXCEPT !.timeouts =
             Append(@, [req_id |-> line.id, timestamp |-> line.ts,
                        url |-> line.url, elapsed |-> ToFloat(line.el)])]
    ELSE a

\* analyze_timeout
AnalyzeTimeout(a, line) ==
    [a EXCEPT !.timeouts =
        Append(@, [req_id |-> line.id, timestamp |-> line.ts, url |-> line.url,
                   elapsed |-> ToFloat(line.el)])]

\* one iteration of the loop of analyze_file ends with ValueError: the
\* handler of the first matching pattern calls float() before anything else
HandlerRaises(line) ==
    /\ Parsed(line)
    /\ FirstMatch(line) \in TimedPatterns
    /\ FloatRaises(line.el)

\* one iteration of the loop of analyze_file that raises nothing
AnalyzeLine(a, line) ==
    IF ~Parsed(line) THEN a
    ELSE LET p == FirstMatch(line)
         IN  IF p = "HTTP_START" THEN AnalyzeHttpStart(a, line)
             ELSE IF p = "HTTP_END" THEN AnalyzeHttpEnd(a, line)
             ELSE IF p = "REQ_START" THEN AnalyzeReqStart(a, line)
             ELSE IF p = "REQ_END" THEN AnalyzeReqEnd(a, line)
             ELSE IF p = "REQ_SLOW" THEN AnalyzeSlow(a, line)
             ELSE IF p = "REQ_TIMEOUT" THEN AnalyzeTimeout(a, line)
             ELSE a

(***************************************************************************)
(* LogAnalyzer.generate_report.  A mean is kept as the pair of its sum and *)
(* its count; times are in milliseconds.                                   *)
(***************************************************************************)
\* `[:10]` of the slowest HTTP requests and of the API endpoints, `[:20]` of
\* the slow requests
TopHttp == 10
TopUrls == 10
TopSlow == 20

\* `if self.concurrent_peak > 5`, `max(api_elapsed) > 10` (seconds)
PeakThreshold == 5
LongCallThresholdMs == 10000

\* the bar of the concurrency distribution: '#' * min(50, count // 10)
BarMax == 50
BarUnit == 10

RECURSIVE SumSeq(_)
\* sum(seq)
SumSeq(seq) == IF seq = << >> THEN 0 ELSE Head(seq) + SumSeq(Tail(seq))

\* max(seq) and min(seq) of a sequence that is not empty
MaxSeq(seq) == CHOOSE x \in {seq[i] : i \in DOMAIN seq} :
                   \A i \in DOMAIN seq : seq[i] <= x
MinSeq(seq) == CHOOSE x \in {seq[i] : i \in DOMAIN seq} :
                   \A i \in DOMAIN seq : x <= seq[i]

\* the numbers of a set, ascending: sorted(...)
Ascending(S) ==
    [r \in 1..Cardinality(S) |->
        CHOOSE x \in S : Cardinality({y \in S : y < x}) = r - 1]

\* sorted(seq, key=..., reverse=True) of records with a field key: equal keys
\* keep their order
SortedDesc(seq) ==
    LET n == Len(seq)
        rank(i) == 1 + Cardinality({j \in 1..n :
                          \/ seq[j].key > seq[i].key
                          \/ seq[j].key = seq[i].key /\ j < i})
    IN  [r \in 1..n |-> seq[CHOOSE i \in 1..n : rank(i) = r]]

\* seq[:n]
Top(seq, n) == SubSeq(seq, 1, IF Len(seq) < n THEN Len(seq) ELSE n)

\* [f(x) for x in seq], for the field elapsed
Elapsed(seq) == [i \in DOMAIN seq |-> seq[i].elapsed]

\* the records that carry 'elapsed': `if 'elapsed' in req`
HasElapsed(r) == r.has_end
WithElapsed(d) == SelectSeq(DictValues(d), HasElapsed)

\* the distinct values of vals in the order of their first occurrence: the
\* key order of a dict filled while walking vals
FirstOccurrences(vals) ==
    LET firsts == {i \in DOMAIN vals : \A j \in 1..(i-1) : vals[j] # vals[i]}
        idx == Ascending(firsts)
    IN  [r \in DOMAIN idx |-> vals[idx[r]]]

\* section 1: the overall counts
ReportTotals(a) ==
    [http |-> Len(a.http_requests.keys), api |-> Len(a.api_requests.keys),
     slow |-> Len(a.slow_requests), timeouts |-> Len(a.timeouts),
     peak |-> a.concurrent_peak]

\* section 2: HTTP response times, printed `if http_elapsed`
ReportHttp(a) ==
    LET reqs == WithElapsed(a.http_requests)
        el == Elapsed(reqs)
    IN  IF el = << >> THEN [shown |-> FALSE]
        ELSE [shown |-> TRUE, sum |-> SumSeq(el), count |-> Len(el),
              max |-> MaxSeq(el), min |-> MinSeq(el),
              slowest |-> Top(SortedDesc([i \in DOMAIN reqs |->
                                 [key |-> reqs[i].elapsed, req |-> reqs[i]]]),
                              TopHttp)]

\* url_stats of section 3: per URL the count, the total and the max
UrlStats(reqs) ==
    LET urls == FirstOccurrences([i \in DOMAIN reqs |-> reqs[i].url])
        of(u) == Elapsed(SelectSeq(reqs, LAMBDA r : r.url = u))
    IN  [i \in DOMAIN urls |->
            [url |-> urls[i], count |-> Len(of(urls[i])),
             total |-> SumSeq(of(urls[i])), max |-> MaxSeq(of(urls[i])),
             key |-> SumSeq(of(urls[i]))]]

\* section 3: API call times, printed `if api_elapsed`
ReportApi(a) ==
    LET reqs == WithElapsed(a.api_requests)
        el == Elapsed(reqs)
    IN  IF el = << >> THEN [shown |-> FALSE]
        ELSE [shown |-> TRUE, sum |-> SumSeq(el), count |-> Len(el),
              max |-> MaxSeq(el),
              urls |-> Top(SortedDesc(UrlStats(reqs)), TopUrls)]

\* section 4: the slow requests, printed `if self.slow_requests`, slowest
\* first, each with the URL of its call when the id is in api_requests
ReportSlow(a) ==
    LET entry(r) == [key |-> r.elapsed, timestamp |-> r.timestamp,
                     elapsed |-> r.elapsed, caller |-> r.caller,
                     url |-> IF DictHas(a.api_requests, r.req_id)
                             THEN a.api_requests.val[r.req_id].url ELSE ""]
    IN  Top(SortedDesc([i \in DOMAIN a.slow_requests |->
                           entry(a.slow_requests[i])]), TopSlow)

\* section 5: the timeouts, printed `if self.timeouts`, in list order
ReportTimeouts(a) ==
    [i \in DOMAIN a.timeouts |->
        [timestamp |-> a.timeouts[i].timestamp, url |-> a.timeouts[i].url,
         elapsed |-> a.timeouts[i].elapsed]]

\* section 6: the active_count_start of the records of api_requests: mean,
\* max, and per level the number of records with its bar
ReportConcurrency(a) ==
    LET reqs == DictValues(a.api_requests)
        counts == [i \in DOMAIN reqs |-> reqs[i].active_count_start]
        levels == Ascending({counts[i] : i \in DOMAIN counts})
        n(k) == Cardinality({i \in DOMAIN counts : counts[i] = k})
    IN  IF counts = << >> THEN [shown |-> FALSE]
        ELSE [shown |-> TRUE, sum |-> SumSeq(counts), count |-> Len(counts),
              max |-> MaxSeq(counts),
              dist |-> [i \in DOMAIN levels |->
                           [level |-> levels[i], count |-> n(levels[i]),
                            bar |-> IF n(levels[i]) \div BarUnit < BarMax
                                    THEN n(levels[i]) \div BarUnit ELSE BarMax]]]

\* max(slow_callers.items(), key=count): the first caller, in the order the
\* callers entered slow_callers, with the highest count
TopCaller(slow) ==
    LET callers == FirstOccurrences([i \in DOMAIN slow |-> slow[i].caller])
        n(c) == Cardinality({i \in DOMAIN slow : slow[i].caller = c})
        best == CHOOSE i \in DOMAIN callers :
                    /\ \A j \in DOMAIN callers : n(callers[j]) <= n(callers[i])
                    /\ \A j \in 1..(i-1) : n(callers[j]) < n(callers[i])
    IN  [caller |-> callers[best], count |-> n(callers[best])]

\* the comparisons of section 7
TimeoutsSeen(a) == a.timeouts # << >>
\* `self.concurrent_peak >= 5` in place of `> 5`
PeakHighInclusive(a) == a.concurrent_peak >= PeakThreshold
\* `if self.concurrent_peak > 5`
PeakHigh(a) == a.concurrent_peak > PeakThreshold
\* `if api_elapsed and max(api_elapsed) > 10`
LongCall(el) == el # << >> /\ MaxSeq(el) > LongCallThresholdMs

\* section 7: the findings in the order they are appended; the "nothing
\* unusual" line when there is none
ReportFindings(a) ==
    LET el == Elapsed(WithElapsed(a.api_requests))
        f1 == IF TimeoutsSeen(a)
              THEN <<[finding |-> "timeouts", n |-> Len(a.timeouts), who |-> ""]>>
              ELSE << >>
        f2 == IF PeakHigh(a)
              THEN <<[finding |-> "peak", n |-> a.concurrent_peak, who |-> ""]>>
              ELSE << >>
        f3 == IF LongCall(el)
              THEN <<[finding |-> "long_call", n |-> MaxSeq(el), who |-> ""]>>
              ELSE << >>
        f4 == IF a.slow_requests # << >>
              THEN <<[finding |-> "slow_caller",
                      n |-> TopCaller(a.slow_requests).count,
                      who |-> TopCaller(a.slow_requests).caller]>>
              ELSE << >>
        all == f1 \o f2 \o f3 \o f4
    IN  IF all # << >> THEN all
        ELSE <<[finding |-> "none", n |-> 0, who |-> ""]>>

\* generate_report: what it prints, section by section
Report(a) ==
    [printed |-> TRUE,
     totals |-> ReportTotals(a),
     http |-> ReportHttp(a),
     api |-> ReportApi(a),
     slow |-> ReportSlow(a),
     timeouts |-> ReportTimeouts(a),
     concurrency |-> ReportConcurrency(a),
     findings |-> ReportFindings(a)]

(***************************************************************************)
(* main() of analyze_logs.py, run twice over the same input.               *)
(***************************************************************************)
\* the tags of the event stream that analyze_file has no pattern for, and a
\* tag of another logger
UnmatchedTags ==
    {"REQ_SUCCESS", "REQ_CONN_ERROR", "REQ_EXCEPTION", "HTTP_EXCEPTION",
     "DB_SLOW", "DB_RECONNECT", "DB_ERROR", "OTHER"}

\* the lines the input is made of: starts and ends of HTTP requests and API
\* calls (one id started twice, as after a restart of the process; calls of
\* exactly and of more than ten seconds; five and six calls in flight), slow
\* calls of two callers, two timeouts of which one is stamped earlier than the lines before
\* it (two logs concatenated out of order), a line with
\* the text of two events, lines with a tag the scan has no pattern for,
\* lines without a usable timestamp, and elapsed fields that are not numbers
Lines ==
    {Line(2, {t}, "1", 300, NoDigits, "u1", "") : t \in UnmatchedTags} \cup
    { Line(1, {"HTTP_START"}, "a", NoDigits, NoDigits, "", ""),
      Line(2, {"HTTP_END"}, "a", 500, NoDigits, "", ""),
      Line(1, {"REQ_START"}, "1", NoDigits, 0, "u1", "c1"),
      Line(2, {"REQ_START"}, "2", NoDigits, 6, "u2", "c2"),
      Line(2, {"REQ_START"}, "1", NoDigits, 2, "u2", "c1"),
      Line(2, {"REQ_END"}, "1", 3500, 0, "", ""),
      Line(2, {"REQ_END"}, "2", 11000, 0, "", ""),
      Line(2, {"REQ_END"}, "2", 10000, 0, "", ""),
      Line(2, {"REQ_END"}, "1", NotANumber, 0, "", ""),
      Line(2, {"REQ_END"}, "1", NoDigits, 0, "", ""),
      Line(2, {"REQ_SLOW"}, "1", 2500, NoDigits, "u1", "c1"),
      Line(2, {"REQ_SLOW"}, "2", 2600, NoDigits, "u2", "c2"),
      Line(1, {"REQ_TIMEOUT"}, "2", 30000, NoDigits, "u2", "c2"),
      Line(2, {"REQ_TIMEOUT"}, "3", 31000, NoDigits, "u1", "c1"),
      Line(2, {"REQ_TIMEOUT"}, "1", NotANumber, NoDigits, "u1", "c1"),
      Line(2, {"REQ_START", "REQ_TIMEOUT"}, "2", 30000, 5, "u2", "c2"),
      Line(NoTimestamp, {"REQ_START"}, "1", NoDigits, 9, "u1", "c1"),
      Line(BadTimestamp, {"REQ_TIMEOUT"}, "2", 30000, NoDigits, "u2", "c2") }

\* a LogAnalyzer whose lists are class attributes, shared by all instances
NewAnalyzerSharedLists(prev) ==
    [EmptyAnalyzer EXCEPT !.slow_requests = prev.slow_requests,
                          !.timeouts = prev.timeouts]

\* `analyzer = LogAnalyzer()`: __init__ binds new, empty accumulators,
\* whatever an earlier instance holds
NewAnalyzer(prev) == EmptyAnalyzer

\* one iteration of `for line in file_handle:`; a ValueError of the handler
\* leaves analyze_file and main: no report, the process ends with a traceback
ScanLine(line) ==
    /\ lc_pos' = lc_pos + 1
    /\ IF HandlerRaises(line)
       THEN /\ lc_pc' = "crashed"
            /\ UNCHANGED analyzer
       ELSE /\ lc_pc' = "scan"
            /\ analyzer' = AnalyzeLine(analyzer, line)

\* the first run reads the next line of its input
ReadLine(line) ==
    /\ lc_run = 1
    /\ lc_pc = "scan"
    /\ Len(input) < MaxLines
    /\ input' = Append(input, line)
    /\ ScanLine(line)
    /\ UNCHANGED <<lc_run, report, first_run>>
    /\ UNCHANGED <<auth_vars, db_vars>>

\* the second run reads the same input, line by line
RereadLine ==
    /\ lc_run = 2
    /\ lc_pc = "scan"
    /\ lc_pos < Len(input)
    /\ ScanLine(input[lc_pos + 1])
    /\ UNCHANGED <<input, lc_run, report, first_run>>
    /\ UNCHANGED <<auth_vars, db_vars>>

\* the input ends: analyze_file returns
EndOfInput ==
    /\ lc_pc = "scan"
    /\ lc_run = 2 => lc_pos = Len(input)
    /\ lc_pc' = "report"
    /\ UNCHANGED <<input, analyzer, lc_run, lc_pos, report, first_run>>
    /\ UNCHANGED <<auth_vars, db_vars>>

\* `analyzer.generate_report()`, then main returns and the process exits 0
GenerateReport ==
    /\ lc_pc = "report"
    /\ report' = Report(analyzer)
    /\ lc_pc' = "done"
    /\ UNCHANGED <<input, analyzer, lc_run, lc_pos, first_run>>
    /\ UNCHANGED <<auth_vars, db_vars>>

\* the tool is run again on the same input: main() makes a new LogAnalyzer
SecondRun ==
    /\ lc_run = 1
    /\ lc_pc \in {"done", "crashed"}
    /\ first_run' = [pc |-> lc_pc, analyzer |-> analyzer, report |-> report]
    /\ analyzer' = NewAnalyzer(analyzer)
    /\ report' = NoReport
    /\ lc_run' = 2
    /\ lc_pos' = 0
    /\ lc_pc' = "scan"
    /\ UNCHANGED input
    /\ UNCHANGED <<auth_vars, db_vars>>

NextLog ==
    \/ \E line \in Lines : ReadLine(line)
    \/ RereadLine
    \/ EndOfInput
    \/ GenerateReport
    \/ SecondRun

SpecLog == Init /\ [][NextLog]_vars

(***************************************************************************)
(* analyze_file applied a second time to the same input by the same        *)
(* LogAnalyzer.                                                             *)
(***************************************************************************)
\* `analyzer.analyze_file(f)` once more on the instance that has printed its
\* report: the loop starts again at the first line, the accumulators are
\* the ones the first scan filled
Rescan ==
    /\ lc_run = 1
    /\ lc_pc = "done"
    /\ first_run' = [pc |-> lc_pc, analyzer |-> analyzer, report |-> report]
    /\ report' = NoReport
    /\ lc_run' = 2
    /\ lc_pos' = 0
    /\ lc_pc' = "scan"
    /\ UNCHANGED <<input, analyzer>>
    /\ UNCHANGED <<auth_vars, db_vars>>

NextRescan ==
    \/ \E line \in Lines : ReadLine(line)
    \/ RereadLine
    \/ EndOfInput
    \/ GenerateReport
    \/ Rescan

SpecRescan == Init /\ [][NextRescan]_vars

(***************************************************************************)
(* The event stream of auth_requests as input of the LogAnalyzer.          *)
(***************************************************************************)
DecimalDigits == <<"0", "1", "2", "3", "4", "5", "6", "7", "8", "9">>

RECURSIVE IdText(_)
\* `id=%d`: the decimal text of a request id
IdText(n) ==
    IF n < 10 THEN DecimalDigits[n + 1]
    ELSE IdText(n \div 10) \o DecimalDigits[(n % 10) + 1]

\* the tags whose format has an `elapsed=%.3fs` field, and those whose format
\* has an `active_count=%d` field
ElapsedTags == {"REQ_SUCCESS", "REQ_SLOW", "REQ_TIMEOUT", "REQ_CONN_ERROR",
                "REQ_EXCEPTION", "REQ_END"}
ActiveCountTags == {"REQ_START", "REQ_END"}

\* the i-th line of the log file as analyze_file reads it: the logging
\* handler stamps every record with its time, which never runs backwards
\* (the position in the log stands for it), then come the tag and the fields
\* of the format string
LoggedLine(i) ==
    LET e == log[i]
    IN  Line(i, {e.tag}, IdText(e.id),
             IF e.tag \in ElapsedTags THEN e.elapsed ELSE NoDigits,
             IF e.tag \in ActiveCountTags THEN e.active_count ELSE NoDigits,
             "url", "caller")

RECURSIVE ScanLog(_)
\* analyze_file over the first n lines of the log, by a new LogAnalyzer
ScanLog(n) ==
    IF n = 0 THEN EmptyAnalyzer
    ELSE LET a == ScanLog(n - 1)
             line == LoggedLine(n)
         IN  AnalyzeLine(a, line)

\* the peak generate_report prints after scanning the log written so far
EnginePeak == Report(ScanLog(Len(log))).totals.peak

(***************************************************************************)
(* Properties of the outbound call tracker.                                *)
(***************************************************************************)
\* number of log lines with this tag and id
Count(tag, id) ==
    Cardinality({i \in DOMAIN log : log[i].tag = tag /\ log[i].id = id})

\* the id given to the call of thread t, 0 before it has one
IdOf(t) == IF pc[t] = "idle" THEN result[t].id ELSE call[t].request_id

\* the call of thread t has returned or raised
Ended(t) == pc[t] = "idle" /\ result[t] # NoResult

\* threads whose call has inserted its record and not yet run its removal
InFlight ==
    {t \in Threads : pc[t] \in {"log_start", "check_token", "in_network",
                                 "log_slow", "lock_finally", "remove"}}

TerminalTags == {"REQ_END", "REQ_SUCCESS", "REQ_TIMEOUT", "REQ_CONN_ERROR",
                 "REQ_EXCEPTION"}
FailureTags == {"REQ_TIMEOUT", "REQ_CONN_ERROR", "REQ_EXCEPTION"}

TagCount(tags, id) ==
    Cardinality({i \in DOMAIN log : log[i].tag \in tags /\ log[i].id = id})

\* C1: at every observation point the registry holds exactly the calls that
\* have registered and not yet terminated; with every call returned or raised
\* it is empty.
C1_RegistryMatchesLiveCalls ==
    DOMAIN active_requests = {call[t].request_id : t \in InFlight}

\* C2: a call that inserted its record and logged REQ_START has, once it has
\* ended in whatever way, its record removed and exactly one REQ_END line.
C2_CleanupUnconditional ==
    \A t \in Threads :
        Ended(t) =>
            /\ result[t].id \notin DOMAIN active_requests
            /\ Count("REQ_END", result[t].id) = 1

\* C3: the REQ_START of a call that has ended is followed by exactly one line
\* with a terminal tag and the same id.
C3_ExactlyOneTerminal ==
    \A t \in Threads :
        Ended(t) =>
            Cardinality({i \in DOMAIN log :
                /\ log[i].tag \in TerminalTags
                /\ log[i].id = result[t].id
                /\ \E j \in 1..(i-1) :
                      log[j].tag = "REQ_START" /\ log[j].id = result[t].id}) = 1

\* C4: ids are pairwise distinct, each id is the counter's value right after
\* the call's own increment, and a new id is greater than every id assigned
\* before it.
C4_IdsDistinct ==
    \A t, u \in Threads :
        (t # u /\ IdOf(t) # 0 /\ IdOf(u) # 0) => IdOf(t) # IdOf(u)

C4_IdAssignment ==
    \A t \in Threads :
        (pc[t] = "incr_store" /\ pc'[t] # "incr_store") =>
            /\ request_counter' = request_counter + 1
            /\ call'[t].request_id = request_counter'
            /\ \A u \in Threads : IdOf(u) < call'[t].request_id

C4_IdsUniqueIncreasing == [](C4_IdsDistinct) /\ [][C4_IdAssignment]_vars

\* two calls in flight at once hold the ids 1 and 2, the higher thread first
C4_Witness ==
    /\ pc[1] \notin {"idle", "lock_counter", "incr_load", "incr_store"}
    /\ pc[2] \notin {"idle", "lock_counter", "incr_load", "incr_store"}
    /\ call[2].request_id = 1
    /\ call[1].request_id = 2

\* no record has been removed from the registry so far
NoneRemoved ==
    /\ \A t \in Threads : pc[t] # "log_end"
    /\ \A i \in DOMAIN log : log[i].tag # "REQ_END"

\* number of registered calls whose REQ_START carries, or will carry, k
StartsWith(k) ==
    Cardinality({t \in Threads : pc[t] = "log_start" /\ call[t].active_count = k})
    + Cardinality({i \in DOMAIN log :
                     log[i].tag = "REQ_START" /\ log[i].active_count = k})

\* C5: the active_count of REQ_START is the registry size read right before
\* the call's own insertion, no other registration or removal coming between
\* the read and the insertion; while nothing has been removed, the n
\* registered calls carry 0, 1, ..., n-1, each once.
C5_StartCountBeforeInsert ==
    /\ \A t \in Threads :
          pc[t] = "insert" =>
              /\ call[t].active_count = Cardinality(DOMAIN active_requests)
              /\ call[t].request_id \notin DOMAIN active_requests
    /\ NoneRemoved =>
          \A k \in 0..NumThreads :
              StartsWith(k) = IF k < Cardinality(DOMAIN active_requests) THEN 1 ELSE 0

\* every thread has registered and logged REQ_START, nothing removed yet
C5_Witness ==
    /\ NoneRemoved
    /\ Cardinality(DOMAIN active_requests) = NumThreads
    /\ \A t \in Threads : Count("REQ_START", IdOf(t)) = 1

\* C6: when the network call raised e, exactly one of REQ_TIMEOUT,
\* REQ_CONN_ERROR, REQ_EXCEPTION is logged for the id: REQ_TIMEOUT for a
\* timeout, else REQ_CONN_ERROR for a connection failure, else REQ_EXCEPTION;
\* and the caller gets e raised, never a return value or another error.
C6_FailureClassifiedAndReraised ==
    \A t \in Threads :
        (Ended(t) /\ result[t].net.kind = "error") =>
            LET e == result[t].net.error
                id == result[t].id
                tag == IF e \in {"ReadTimeout", "ConnectTimeout"} THEN "REQ_TIMEOUT"
                       ELSE IF e = "ConnectionError" THEN "REQ_CONN_ERROR"
                       ELSE "REQ_EXCEPTION"
            IN  /\ Count(tag, id) = 1
                /\ TagCount(FailureTags, id) = 1
                /\ Count("REQ_SUCCESS", id) = 0
                /\ result[t].outcome = [kind |-> "error", status |-> 0, error |-> e]

\* a call ended whose network call raised ConnectTimeout, which is both a
\* timeout and a connection failure
C6_Witness ==
    \E t \in Threads :
        /\ Ended(t)
        /\ result[t].net = Raised("ConnectTimeout")
        /\ Count("REQ_TIMEOUT", result[t].id) = 1

\* C7: a call without a token ends with the error "no api token", whatever
\* its method, and its request is never put on the network.
C7_NoTokenNoNetwork ==
    \A t \in Threads :
        /\ (pc[t] # "idle" /\ ~call[t].token) => call[t].request_id \notin wire
        /\ (Ended(t) /\ ~result[t].token) =>
              /\ result[t].outcome = [kind |-> "error", status |-> 0,
                                       error |-> "no api token"]
              /\ result[t].net.kind = "none"
              /\ result[t].id \notin wire

\* a call without a token and with a supported method has ended, while the
\* other call was put on the network
C7_Witness ==
    \E t \in Threads :
        /\ Ended(t)
        /\ ~result[t].token
        /\ result[t].method = "POST"
        /\ wire # {}

\* C8: a call with a token and a method outside GET, POST, PUT, DELETE ends
\* with the error "invalid http method" and does no network I/O.
C8_InvalidMethodFailsFast ==
    \A t \in Threads :
        (Ended(t) /\ result[t].token
                      /\ result[t].method \notin {"GET", "POST", "PUT", "DELETE"}) =>
            /\ result[t].outcome = [kind |-> "error", status |-> 0,
                                     error |-> "invalid http method"]
            /\ result[t].net.kind = "none"
            /\ result[t].id \notin wire

\* a PATCH call with a token has ended
C8_Witness ==
    \E t \in Threads :
        /\ Ended(t)
        /\ result[t].token
        /\ result[t].method = "PATCH"
        /\ Count("REQ_EXCEPTION", result[t].id) = 1

\* C9: when the network call returned a response, exactly one REQ_SUCCESS is
\* logged for the id, a REQ_SLOW is logged as well iff the elapsed time is
\* strictly above 2 seconds, no failure tag is logged, and the caller gets
\* the response itself.
C9_SuccessLoggedAndReturned ==
    \A t \in Threads :
        (Ended(t) /\ result[t].net.kind = "response") =>
            LET id == result[t].id IN
            /\ Count("REQ_SUCCESS", id) = 1
            /\ Count("REQ_SLOW", id) <= 1
            /\ \A i \in DOMAIN log :
                  (log[i].tag = "REQ_SUCCESS" /\ log[i].id = id) =>
                      (Count("REQ_SLOW", id) = 1 <=> log[i].elapsed > 2000)
            /\ TagCount(FailureTags, id) = 0
            /\ result[t].outcome = result[t].net

\* one call ended after exactly 2 seconds and another after more
C9_Witness ==
    \E t, u \in Threads :
        /\ Ended(t) /\ Ended(u)
        /\ result[t].net.kind = "response" /\ result[u].net.kind = "response"
        /\ \E i, j \in DOMAIN log :
              /\ log[i] = Event("REQ_SUCCESS", result[t].id, 0, 2000)
              /\ log[j] = Event("REQ_SUCCESS", result[u].id, 0, 2001)
        /\ Count("REQ_SLOW", result[t].id) = 0
        /\ Count("REQ_SLOW", result[u].id) = 1

(***************************************************************************)
(* Properties of the data access layer.                                    *)
(***************************************************************************)
\* number of log lines with this tag written by execute call c
DbCount(tag, c) ==
    Cardinality({i \in DOMAIN db_log : db_log[i].tag = tag /\ db_log[i].call = c})

\* the last execute has returned or raised
DbEnded == db_pc = "idle" /\ db_result.kind # "none"

\* the first cursor.execute of these attempts raised a transient-class error
FirstAttemptTransient(stmts) ==
    /\ Len(stmts) >= 1
    /\ stmts[1].outcome \in {"AttributeError", "OperationalError"}

LastStmt(stmts) == stmts[Len(stmts)]

\* the finished execute calls in view: the one that ended last, and the one
\* the wrapper that ended last had made
ExecutesInView == {r \in {db_result, db_wrap.exec, db_out.exec} : r.kind # "none"}

\* C11: one execute makes at most two statement attempts and logs at most one
\* DB_RECONNECT; when the retry fails, with whatever error, execute ends
\* there: that error is raised to the caller, no connection is closed or
\* made, nothing is logged (no second DB_RECONNECT, no DB_ERROR).
C11_AttemptsBounded ==
    /\ Len(db_op.stmts) <= 2
    /\ \A c \in 1..db_calls : DbCount("DB_RECONNECT", c) <= 1
    /\ \A r \in ExecutesInView :
          /\ Len(r.stmts) <= 2
          /\ (Len(r.stmts) = 2 /\ r.stmts[2].outcome # "ok") =>
                /\ r.kind = "raise"
                /\ r.error = r.stmts[2].outcome
                /\ DbCount("DB_RECONNECT", r.call) = 1
                /\ DbCount("DB_ERROR", r.call) = 0

C11_RetryFailureEnds ==
    (db_pc = "retry" /\ db_pc' # "retry" /\ db_result'.kind = "raise") =>
        /\ db_pc' = "idle"
        /\ UNCHANGED <<conn, conns, cursors, db_log>>

C11_AtMostOneRetry == [](C11_AttemptsBounded) /\ [][C11_RetryFailureEnds]_vars

\* an execute ended whose two statement attempts both raised OperationalError
C11_Witness ==
    /\ DbEnded
    /\ Len(db_result.stmts) = 2
    /\ db_result.stmts[1].outcome = "OperationalError"
    /\ db_result.stmts[2].outcome = "OperationalError"
    /\ db_result.kind = "raise"

\* the statement attempt of the try block raised an error that is neither of
\* the transient classes nor an integrity violation
FirstAttemptOther(r) ==
    /\ r.kind # "none"
    /\ Len(r.stmts) >= 1
    /\ r.stmts[1].at = "first_execute"
    /\ r.stmts[1].outcome \notin {"ok", "AttributeError", "OperationalError",
                                 "IntegrityError"}

\* C12: when the statement attempt of the try block raises an error that is
\* neither AttributeError, OperationalError nor IntegrityError, execute raises
\* that error after exactly one attempt, logs no DB_RECONNECT, and self.conn
\* is the connection the attempt ran with (the caller's cursor given: the one
\* held at entry), neither closed nor replaced; query_all raises the same
\* error to its caller.
C12_OtherErrorPropagates ==
    /\ \A r \in ExecutesInView :
          FirstAttemptOther(r) =>
              /\ r.kind = "raise"
              /\ r.error = r.stmts[1].outcome
              /\ Len(r.stmts) = 1
              /\ DbCount("DB_RECONNECT", r.call) = 0
    /\ (DbEnded /\ FirstAttemptOther(db_result)) =>
          /\ conn = IF db_result.arg = NoCursor
                    THEN cursors[db_result.stmts[1].cursor]
                    ELSE db_result.old_conn
          /\ conn # NoConn => conns[conn] = "open"
    /\ (db_out.op = "query_all" /\ FirstAttemptOther(db_out.exec)) =>
          /\ db_out.kind = "raise"
          /\ db_out.error = db_out.exec.stmts[1].outcome
          /\ conn = IF db_out.exec.arg = NoCursor
                    THEN cursors[db_out.exec.stmts[1].cursor]
                    ELSE db_out.old_conn
          /\ conn # NoConn => conns[conn] = "open"

\* a query_all on a held connection ended whose statement raised InterfaceError
C12_Witness ==
    /\ db_out.op = "query_all"
    /\ db_out.kind = "raise"
    /\ db_out.old_conn # NoConn
    /\ Len(db_out.exec.stmts) = 1
    /\ db_out.exec.stmts[1].at = "first_execute"
    /\ db_out.exec.stmts[1].outcome = "InterfaceError"

\* the steps with this name among the calls a wrapper, commit or rollback made
StepsNamed(steps, name) == {i \in DOMAIN steps : steps[i].step = name}

\* C13: a cursor returned by execute is one on which the last statement
\* attempt ended without error; a last-insert id, a row count or rows
\* returned by insert, update or query_all mean that execute returned and
\* that no call the wrapper made after it (commit, fetchall, close) ended
\* with an error.
C13_GateInvariant ==
    /\ \A r \in ExecutesInView :
          r.kind = "return" =>
              /\ r.cursor # NoCursor
              /\ LastStmt(r.stmts).cursor = r.cursor
              /\ LastStmt(r.stmts).outcome = "ok"
    /\ (db_out.op \in Wrappers /\ db_out.kind = "return" /\ db_out.value # NoValue) =>
          /\ db_out.exec.kind = "return"
          /\ \A i \in DOMAIN db_out.steps :
                db_out.steps[i].outcome \in {"ok", "skipped"}

\* an insert / update / query_all whose statement ended with an integrity
\* violation
IntegrityFailed(out) ==
    /\ out.exec.kind = "raise"
    /\ out.exec.error = "IntegrityError"
    /\ LastStmt(out.exec.stmts).outcome = "IntegrityError"

\* what execute and query_all do with an integrity violation: nothing
IntegrityNotCaughtBelow ==
    /\ \A r \in ExecutesInView :
          (Len(r.stmts) >= 1 /\ LastStmt(r.stmts).outcome = "IntegrityError") =>
              /\ r.kind = "raise"
              /\ r.error = "IntegrityError"
    /\ (db_out.op = "query_all" /\ IntegrityFailed(db_out)) =>
          /\ db_out.kind = "raise"
          /\ db_out.error = "IntegrityError"
          /\ StepsNamed(db_out.steps, "rollback") = {}

\* C14 as stated: when the statement of insert or update fails with an
\* integrity violation the wrapper calls rollback once, returns None and
\* raises nothing; execute and query_all raise the violation to their caller.
C14_IntegrityRolledBackNoRaise ==
    /\ (db_out.op \in {"insert", "update"} /\ IntegrityFailed(db_out)) =>
          /\ Cardinality(StepsNamed(db_out.steps, "rollback")) = 1
          /\ db_out.kind = "return"
          /\ db_out.value = NoValue
    /\ IntegrityNotCaughtBelow

\* C14 amended: when the statement of insert or update fails with an
\* integrity violation the wrapper calls rollback once and never raises the
\* violation; it returns None unless conn.rollback() itself raises an error
\* other than OperationalError, which is then raised to the caller; execute
\* and query_all raise the violation to their caller.
C14_IntegrityRolledBack ==
    /\ (db_out.op \in {"insert", "update"} /\ IntegrityFailed(db_out)) =>
          /\ Len(db_out.steps) = 1
          /\ db_out.steps[1].step = "rollback"
          /\ IF db_out.steps[1].outcome \in {"ok", "skipped", "OperationalError"}
             THEN /\ db_out.kind = "return"
                  /\ db_out.value = NoValue
             ELSE /\ db_out.kind = "raise"
                  /\ db_out.error = db_out.steps[1].outcome
                  /\ db_out.error # "IntegrityError"
    /\ IntegrityNotCaughtBelow

\* an update returned None after an integrity violation and a rollback
C14_Witness ==
    /\ db_out.op = "update"
    /\ IntegrityFailed(db_out)
    /\ db_out.kind = "return"
    /\ db_out.value = NoValue
    /\ db_out.steps[1].outcome = "ok"

\* the calls of conn.commit() / conn.rollback() that raised OperationalError
\* in the operation that ended last
TxSwallowed(out) ==
    {i \in DOMAIN out.steps : /\ out.steps[i].step \in {"commit", "rollback"}
                              /\ out.steps[i].outcome = "OperationalError"}

\* C15: an OperationalError raised by conn.commit() or conn.rollback() does
\* not reach the caller of commit or rollback, nor the caller of the insert
\* or update that committed or rolled back, and self.conn is None after it;
\* with self.conn None, commit and rollback return without doing anything;
\* an execute without a cursor of the caller that finds self.conn None calls
\* connect_db before anything else.
C15_TxState ==
    /\ (db_out.op \in {"commit", "rollback"} /\ TxSwallowed(db_out) # {}) =>
          /\ db_out.kind = "return"
          /\ conn = NoConn
    /\ (db_out.op \in {"insert", "update"} /\ TxSwallowed(db_out) # {}) =>
          /\ db_out.kind = "return"
          /\ conn = NoConn
    /\ (db_out.op \in {"commit", "rollback"} /\ db_out.old_conn = NoConn) =>
          /\ db_out.kind = "return"
          /\ db_out.steps[1].outcome = "skipped"
          /\ conn = NoConn

C15_TxSteps ==
    /\ (tx_calls' # tx_calls /\ conn = NoConn) =>
          UNCHANGED <<conn, conns, cursors, db_log, closed>>
    /\ (db_pc = "first_cursor" /\ db_op.arg = NoCursor /\ conn = NoConn
            /\ db_pc' # "first_cursor") =>
          \/ /\ conns' = Append(conns, "open")
             /\ conn' = Len(conns')
             /\ db_op'.cursor # NoCursor
             /\ cursors'[db_op'.cursor] = conn'
          \/ /\ db_op'.error = "AttributeError"
             /\ UNCHANGED <<conn, conns, cursors>>

C15_TxBestEffort == [](C15_TxState) /\ [][C15_TxSteps]_vars

\* a commit on a held connection returned after conn.commit() raised
\* OperationalError
C15_Witness ==
    /\ db_out.op = "commit"
    /\ db_out.old_conn # NoConn
    /\ db_out.steps[1].outcome = "OperationalError"
    /\ db_out.kind = "return"

\* C16: when execute raised inside query_all, query_all raises the same
\* error, having called neither fetchall nor close; when execute returned,
\* query_all calls fetchall and close on the cursor execute returned, and
\* its rows are those of that cursor.
C16_QueryAllCursor ==
    db_out.op = "query_all" =>
        IF db_out.exec.kind = "raise"
        THEN /\ db_out.kind = "raise"
             /\ db_out.error = db_out.exec.error
             /\ db_out.steps = << >>
        ELSE /\ db_out.exec.kind = "return"
             /\ Len(db_out.steps) = 2
             /\ db_out.steps[1].step = "fetchall"
             /\ db_out.steps[1].on = db_out.exec.cursor
             /\ db_out.steps[2].step = "close"
             /\ db_out.steps[2].on = db_out.exec.cursor
             /\ db_out.exec.cursor # NoCursor
             /\ db_out.kind = "return" =>
                   db_out.value = [attr |-> "fetchall", cursor |-> db_out.exec.cursor]

\* a query_all raised the InterfaceError that the first statement attempt
\* of its execute raised
C16_Witness ==
    /\ db_out.op = "query_all"
    /\ db_out.kind = "raise"
    /\ db_out.exec.kind = "raise"
    /\ db_out.error = "InterfaceError"
    /\ Len(db_out.exec.stmts) = 1
    /\ db_out.steps = << >>

\* C17: when execute returns, on either path, it returns a cursor, never
\* None: the cursor of its last statement attempt, which ended without
\* error; that cursor is the caller's, or else a cursor of self.conn.
C17_ReturnsCursor ==
    /\ \A r \in ExecutesInView :
          r.kind = "return" =>
              /\ r.cursor # NoCursor
              /\ r.error = ""
              /\ LastStmt(r.stmts).cursor = r.cursor
              /\ LastStmt(r.stmts).outcome = "ok"
    /\ (DbEnded /\ db_result.kind = "return") =>
          \/ db_result.cursor = db_result.arg
          \/ /\ conn # NoConn
             /\ cursors[db_result.cursor] = conn

\* the second execute on the instance returned on the retry path a cursor
\* of the connection it made
C17_Witness ==
    /\ DbEnded
    /\ db_result.kind = "return"
    /\ db_result.arg = NoCursor
    /\ Len(db_result.stmts) = 2
    /\ db_calls = 2
    /\ cursors[db_result.cursor] = conn

(***************************************************************************)
(* Properties of the log analyzer.                                         *)
(***************************************************************************)
\* the run of the tool has ended: report printed, or aborted by an exception
LogEnded == lc_pc \in {"done", "crashed"}

C19_NeverAborts ==
    /\ lc_pc # "crashed"
    /\ lc_pc = "done" => report.printed

\* the line the step of the scan consumes
LineRead == IF lc_run = 1 THEN input'[Len(input')] ELSE input[lc_pos + 1]

\* the step of the scan consumes an HTTP_END / REQ_END line whose id has no
\* record
OrphanEndRead ==
    /\ lc_pc = "scan"
    /\ lc_pos' = lc_pos + 1
    /\ Parsed(LineRead)
    /\ \/ /\ FirstMatch(LineRead) = "HTTP_END"
          /\ ~DictHas(analyzer.http_requests, LineRead.id)
       \/ /\ FirstMatch(LineRead) = "REQ_END"
          /\ ~DictHas(analyzer.api_requests, LineRead.id)

\* C20: an HTTP_END or REQ_END line whose id has no record made by an
\* earlier start line of the scan changes nothing (no record, no
\* accumulator, no count) and raises nothing.
C20_OrphanEndStep ==
    OrphanEndRead => /\ analyzer' = analyzer
                     /\ lc_pc' = "scan"

C20_OrphanEndIgnored == [][C20_OrphanEndStep]_vars

\* the pattern whose handler line i of the input is applied to, "none" for a
\* line that is skipped
HandledAs(i) == IF Parsed(input[i]) THEN FirstMatch(input[i]) ELSE "none"

\* the positions of the input lines applied to the handler of pattern p
LinesOf(p) == {i \in DOMAIN input : HandledAs(i) = p}

\* the ids of the calls for which a REQ_START was parsed
CallsStarted == {input[i].id : i \in LinesOf("REQ_START")}

\* the positions of the REQ_END lines of call id that follow a REQ_START of
\* that id
EndsOf(id) ==
    {j \in LinesOf("REQ_END") :
        /\ input[j].id = id
        /\ \E i \in LinesOf("REQ_START") : i < j /\ input[i].id = id}

\* the calls for which a REQ_END was parsed after the REQ_START
CallsEnded == {id \in CallsStarted : EndsOf(id) # {}}

\* the elapsed of the (last) REQ_END of an ended call, and the url of the
\* REQ_START that created its record
EndElapsedOf(id) ==
    ToFloat(input[CHOOSE j \in EndsOf(id) : \A k \in EndsOf(id) : k <= j].el)
StartUrlOf(id) ==
    LET starts == {i \in LinesOf("REQ_START") : input[i].id = id}
    IN  input[CHOOSE i \in starts : \A k \in starts : i <= k].url

RECURSIVE SumElapsedOf(_)
\* the sum of the REQ_END elapsed of a set of ended calls
SumElapsedOf(ids) ==
    IF ids = {} THEN 0
    ELSE LET x == CHOOSE y \in ids : TRUE
         IN  EndElapsedOf(x) + SumElapsedOf(ids \ {x})

\* the per-URL line the report owes to the ended calls with URL u
UrlLineOf(u) ==
    LET ids == {id \in CallsEnded : StartUrlOf(id) = u}
    IN  [url |-> u, count |-> Cardinality(ids),
         total |-> SumElapsedOf(ids),
         max |-> CHOOSE m \in {EndElapsedOf(id) : id \in ids} :
                     \A id \in ids : EndElapsedOf(id) <= m]

\* the per-URL lines of the report without their sort key
UrlLinesShown ==
    {[url |-> report.api.urls[i].url, count |-> report.api.urls[i].count,
      total |-> report.api.urls[i].total, max |-> report.api.urls[i].max] :
        i \in DOMAIN report.api.urls}

\* C21: in the report the API call total counts every call with a parsed
\* REQ_START, ended or not, and the API latency aggregates (mean, max, and
\* per URL the count, total and max) range over exactly the calls with a
\* REQ_END of the same id parsed after the REQ_START, each contributing the
\* elapsed of that REQ_END.
C21_TotalsAndAggregates ==
    report.printed =>
        /\ report.totals.api = Cardinality(CallsStarted)
        /\ report.api.shown = (CallsEnded # {})
        /\ report.api.shown =>
              /\ report.api.count = Cardinality(CallsEnded)
              /\ report.api.sum = SumElapsedOf(CallsEnded)
              /\ \E id \in CallsEnded : report.api.max = EndElapsedOf(id)
              /\ \A id \in CallsEnded : EndElapsedOf(id) <= report.api.max
              /\ UrlLinesShown =
                    {UrlLineOf(StartUrlOf(id)) : id \in CallsEnded}

\* no id has two REQ_START lines in the input
StartIdsDistinct ==
    \A i, j \in LinesOf("REQ_START") : input[i].id = input[j].id => i = j

\* the same statement for inputs in which every REQ_START has its own id
C21_DistinctIds == StartIdsDistinct => C21_TotalsAndAggregates

\* a report over an ended call and a call with no REQ_END
C21_DistinctIdsSeen ==
    /\ report.printed
    /\ StartIdsDistinct
    /\ Cardinality(CallsStarted) = 2
    /\ Cardinality(CallsEnded) = 1

\* the active_count of the REQ_START lines among the first n input lines
StartCounts(n) ==
    {ToInt(input[i].ac) : i \in {j \in LinesOf("REQ_START") : j <= n}}

\* the largest of them, 0 when there is none
MaxStartCount(n) ==
    CHOOSE m \in StartCounts(n) \cup {0} :
        \A k \in StartCounts(n) \cup {0} : k <= m

\* after any prefix of the input concurrent_peak is the maximum active_count
\* of the REQ_START lines parsed so far, and the report prints that value
C22_PeakIsMax ==
    /\ analyzer.concurrent_peak = MaxStartCount(lc_pos)
    /\ report.printed => report.totals.peak = MaxStartCount(Len(input))

\* a step of one scan never lowers concurrent_peak
C22_PeakStep ==
    lc_run' = lc_run => analyzer'.concurrent_peak >= analyzer.concurrent_peak

\* C22: after analyze_file has processed any prefix of the input,
\* concurrent_peak equals the maximum active_count over all REQ_START lines
\* parsed so far (0 if none), and it never decreases as the scan proceeds.
C22_PeakMonotoneMax == [](C22_PeakIsMax) /\ [][C22_PeakStep]_vars

\* three REQ_START lines scanned, the last with an active_count below the
\* peak
C22_Witness ==
    /\ lc_pos = 3
    /\ LinesOf("REQ_START") = {1, 2, 3}
    /\ analyzer.concurrent_peak > ToInt(input[3].ac)
    /\ analyzer.concurrent_peak > 0

\* the step of the scan consumes a REQ_TIMEOUT line whose elapsed is a number
TimeoutRead ==
    /\ lc_pc = "scan"
    /\ lc_pos' = lc_pos + 1
    /\ Parsed(LineRead)
    /\ FirstMatch(LineRead) = "REQ_TIMEOUT"
    /\ ~FloatRaises(LineRead.el)

\* such a step appends one entry, made of the line's fields, to the timeout
\* list and changes no other accumulator
C23_TimeoutStep ==
    TimeoutRead =>
        /\ Len(analyzer'.timeouts) = Len(analyzer.timeouts) + 1
        /\ SubSeq(analyzer'.timeouts, 1, Len(analyzer.timeouts))
              = analyzer.timeouts
        /\ LET e == analyzer'.timeouts[Len(analyzer'.timeouts)]
           IN  /\ e.req_id = LineRead.id
               /\ e.timestamp = LineRead.ts
               /\ e.url = LineRead.url
               /\ e.elapsed = ToFloat(LineRead.el)
        /\ analyzer'.http_requests = analyzer.http_requests
        /\ analyzer'.api_requests = analyzer.api_requests
        /\ analyzer'.slow_requests = analyzer.slow_requests
        /\ analyzer'.concurrent_peak = analyzer.concurrent_peak

\* the REQ_TIMEOUT lines among the first n input lines whose elapsed is a
\* number
TimeoutLines(n) ==
    {i \in LinesOf("REQ_TIMEOUT") : i <= n /\ ~FloatRaises(input[i].el)}

\* the timeout list, the reported count and the detail list have one entry
\* per REQ_TIMEOUT line
C23_TimeoutCount ==
    /\ Len(analyzer.timeouts) = Cardinality(TimeoutLines(lc_pos))
    /\ report.printed =>
          /\ report.totals.timeouts = Cardinality(TimeoutLines(Len(input)))
          /\ Len(report.timeouts) = Cardinality(TimeoutLines(Len(input)))

\* C23: every parsed REQ_TIMEOUT line adds exactly one entry to the timeout
\* list, whether or not a REQ_START with that id was seen before, so the
\* reported timeout count and the timeout detail list have one entry per
\* REQ_TIMEOUT line; a REQ_TIMEOUT line changes no other accumulator.
C23_TimeoutAlwaysCounted == [](C23_TimeoutCount) /\ [][C23_TimeoutStep]_vars

\* a report that lists the timeout of a call whose REQ_START is not in the
\* input, next to the record of another call
C23_Witness ==
    /\ report.printed
    /\ Len(report.timeouts) = 1
    /\ \E i \in LinesOf("REQ_TIMEOUT") : input[i].id \notin CallsStarted
    /\ CallsStarted # {}

\* a step of the scan: one line consumed
ScanStep == lc_pc = "scan" /\ lc_pos' = lc_pos + 1

\* the order in which the claim has the patterns tried
PatternOrder == <<"HTTP_START", "HTTP_END", "REQ_START", "REQ_END",
                  "REQ_SLOW", "REQ_TIMEOUT">>

\* the handler of pattern p applied to line
HandlerApplied(p, a, line) ==
    CASE p = "HTTP_START" -> AnalyzeHttpStart(a, line)
      [] p = "HTTP_END" -> AnalyzeHttpEnd(a, line)
      [] p = "REQ_START" -> AnalyzeReqStart(a, line)
      [] p = "REQ_END" -> AnalyzeReqEnd(a, line)
      [] p = "REQ_SLOW" -> AnalyzeSlow(a, line)
      [] p = "REQ_TIMEOUT" -> AnalyzeTimeout(a, line)

\* the line goes to the handler of the first pattern in the order that
\* matches it, and to no other; a line without a usable timestamp or
\* without a matching pattern leaves the five accumulators as they are
C24_DispatchStep ==
    ScanStep =>
        LET line == LineRead
            ms == {i \in DOMAIN PatternOrder : Matches(line, PatternOrder[i])}
        IN  IF ~Parsed(line) \/ ms = {}
            THEN analyzer' = analyzer /\ lc_pc' = "scan"
            ELSE LET p == PatternOrder[CHOOSE i \in ms : \A j \in ms : i <= j]
                 IN  \/ /\ lc_pc' = "scan"
                        /\ analyzer' = HandlerApplied(p, analyzer, line)
                     \/ /\ lc_pc' = "crashed"
                        /\ p \in TimedPatterns
                        /\ FloatRaises(line.el)
                        /\ analyzer' = analyzer

\* C24: analyze_file applies each input line to at most one handler, the
\* first pattern that matches in the fixed order HTTP_START, HTTP_END,
\* REQ_START, REQ_END, REQ_SLOW, REQ_TIMEOUT; a line with no leading
\* parseable timestamp, or matching none of these patterns, leaves
\* http_requests, api_requests, slow_requests, timeouts and concurrent_peak
\* unchanged.
C24_FirstMatchOnly == [][C24_DispatchStep]_vars

\* a line with the text of a REQ_START and of a REQ_TIMEOUT went to
\* analyze_req_start alone, after a line of a tag without pattern and a line
\* without timestamp changed nothing
C24_Witness ==
    /\ lc_pos = 3
    /\ input[1].tags \subseteq UnmatchedTags
    /\ ~Parsed(input[2])
    /\ input[3].tags = {"REQ_START", "REQ_TIMEOUT"}
    /\ analyzer.api_requests.keys = <<input[3].id>>
    /\ analyzer.timeouts = << >>
    /\ analyzer.http_requests = EmptyDict
    /\ analyzer.slow_requests = << >>

\* the records of dict d that carry end/elapsed keep them in dict e
EndsKept(d, e) ==
    \A id \in DOMAIN d.val :
        d.val[id].has_end =>
            /\ id \in DOMAIN e.val
            /\ e.val[id].has_end
            /\ e.val[id].elapsed = d.val[id].elapsed

\* a step of one scan removes no record
C25_CountStep ==
    lc_run' = lc_run =>
        /\ Len(analyzer'.api_requests.keys) >= Len(analyzer.api_requests.keys)
        /\ Len(analyzer'.http_requests.keys) >= Len(analyzer.http_requests.keys)

\* a step of one scan removes no record and takes end/elapsed from none
C25_RecordStep ==
    lc_run' = lc_run =>
        /\ C25_CountStep
        /\ EndsKept(analyzer.api_requests, analyzer'.api_requests)
        /\ EndsKept(analyzer.http_requests, analyzer'.http_requests)

\* C25: during one scan a ParsedCall/ParsedRequest is created by the first
\* start line seen for its id and is never deleted or reset afterwards: the
\* number of records in api_requests and http_requests never decreases, and
\* once a record has received end/elapsed from its terminal line, no later
\* line of the scan removes those fields before report generation.
C25_RecordsNeverReset == [][C25_RecordStep]_vars

\* the part of the statement about the number of records
C25_RecordsNeverDeleted == [][C25_CountStep]_vars

\* the number of REQ_START lines of the input with active_count k
StartsAt(k) ==
    Cardinality({i \in LinesOf("REQ_START") : ToInt(input[i].ac) = k})

\* the pairs of level and count the concurrency section of the report shows
LevelsShown ==
    IF report.concurrency.shown
    THEN {<<report.concurrency.dist[i].level, report.concurrency.dist[i].count>> :
             i \in DOMAIN report.concurrency.dist}
    ELSE {}

\* C26: the concurrency section of the report shows for each concurrency
\* level k the number of REQ_START lines parsed with active_count = k, so
\* the counts sum to the number of call-start lines parsed, and the maximum
\* concurrency it shows equals the ConcurrencyPeak of the overall counts.
C26_HistogramCountsStarts ==
    report.printed =>
        /\ LevelsShown = {<<k, StartsAt(k)>> : k \in StartCounts(Len(input))}
        /\ report.concurrency.shown =>
              /\ report.concurrency.count = Cardinality(LinesOf("REQ_START"))
              /\ report.concurrency.max = report.totals.peak

\* the same statement for inputs in which every REQ_START has its own id
C26_DistinctIds == StartIdsDistinct => C26_HistogramCountsStarts

\* a report over two REQ_START lines with different ids
C26_DistinctIdsSeen ==
    /\ report.printed
    /\ StartIdsDistinct
    /\ Cardinality(LinesOf("REQ_START")) = 2

\* C27: the timeout detail list of the report is in chronological order:
\* the timestamps of consecutive entries are non-decreasing.
C27_TimeoutsChronological ==
    report.printed =>
        \A i \in 1..(Len(report.timeouts) - 1) :
            report.timeouts[i].timestamp <= report.timeouts[i + 1].timestamp

\* the lines of the input with a usable timestamp are in the order of their
\* timestamps
InputChronological ==
    \A i, j \in DOMAIN input :
        (i < j /\ Parsed(input[i]) /\ Parsed(input[j])) =>
            input[i].ts <= input[j].ts

\* the same statement for inputs whose lines are in chronological order
C27_ChronologicalInput == InputChronological => C27_TimeoutsChronological

\* a report with two timeouts over such an input
C27_ChronologicalInputSeen ==
    /\ report.printed
    /\ InputChronological
    /\ Len(report.timeouts) = 2
    /\ report.timeouts[1].timestamp < report.timeouts[2].timestamp

\* the findings section of the report holds a finding of this kind
Finding(kind) ==
    \E i \in DOMAIN report.findings : report.findings[i].finding = kind

\* the number of slow-request entries of caller c
SlowEntriesOf(c) ==
    Cardinality({i \in DOMAIN analyzer.slow_requests :
                    analyzer.slow_requests[i].caller = c})

\* C28: the findings section of the report contains the backend-unresponsive
\* warning iff at least one timeout was recorded, the single-worker capacity
\* warning iff ConcurrencyPeak > 5 (strictly), the blocking-risk warning iff
\* some API call with a recorded elapsed has elapsed > 10 seconds (strictly),
\* and a slow-caller finding iff the slow-request list is non-empty, naming a
\* caller whose number of slow-request entries is maximal; the no-anomaly
\* line is printed iff none of the four applies.
C28_Findings ==
    report.printed =>
        /\ Finding("timeouts") <=> Len(analyzer.timeouts) >= 1
        /\ Finding("peak") <=> report.totals.peak > 5
        /\ Finding("long_call") <=>
              \E id \in DOMAIN analyzer.api_requests.val :
                  /\ analyzer.api_requests.val[id].has_end
                  /\ analyzer.api_requests.val[id].elapsed > 10 * 1000
        /\ Finding("slow_caller") <=> analyzer.slow_requests # << >>
        /\ \A i \in DOMAIN report.findings :
              report.findings[i].finding = "slow_caller" =>
                  /\ SlowEntriesOf(report.findings[i].who) >= 1
                  /\ \A j \in DOMAIN analyzer.slow_requests :
                        SlowEntriesOf(analyzer.slow_requests[j].caller)
                            <= SlowEntriesOf(report.findings[i].who)
        /\ Finding("none") <=>
              ~(\/ Finding("timeouts") \/ Finding("peak")
                \/ Finding("long_call") \/ Finding("slow_caller"))

\* a report over a peak of exactly five calls in flight, a timeout and a
\* slow request: two warnings, none about capacity
C28_Witness ==
    /\ report.printed
    /\ report.totals.peak = 5
    /\ Finding("timeouts")
    /\ Finding("slow_caller")
    /\ ~Finding("peak")
    /\ ~Finding("none")

(***************************************************************************)
(* Locking and admission order of the outbound call tracker.               *)
(***************************************************************************)
\* thread t holds the lock
Holds(lock, t) == lock = t

\* thread t takes the step
Acts(t) == pc'[t] # pc[t]

\* thread t waits to enter a `with lock:` block
AtLock(t) == pc[t] \in {"lock_counter", "lock_active", "lock_finally"}

\* a step of thread t inside auth_requests
CallStep(t) ==
    \/ AcquireCounterLock(t) \/ LoadCounter(t) \/ StoreCounter(t)
    \/ AcquireActiveLock(t) \/ ReadLen(t) \/ Insert(t) \/ LogStart(t)
    \/ CheckTokenMissing(t) \/ DispatchRequest(t) \/ DispatchInvalid(t)
    \/ LogSlow(t) \/ AcquireFinallyLock(t) \/ Remove(t) \/ LogEnd(t)

\* thread t is inside auth_requests and not inside the network call
Running(t) == pc[t] \notin {"idle", "in_network"}

\* no thread holds both locks, a thread that waits for a lock or is inside
\* the network call holds none, and whenever calls are under way outside
\* the network one of them can take a step: no set of calls waits for locks
\* in a circle, and a call blocked in the network keeps no other from
\* registering or unregistering
C29_LockState ==
    /\ \A t \in Threads :
          /\ ~(Holds(request_counter_lock, t) /\ Holds(active_requests_lock, t))
          /\ (AtLock(t) \/ pc[t] \in {"idle", "in_network"}) =>
                /\ ~Holds(request_counter_lock, t)
                /\ ~Holds(active_requests_lock, t)
    /\ (\E t \in Threads : Running(t)) =>
          \E t \in Threads : Running(t) /\ ENABLED CallStep(t)

\* the counter is read and written, and the registry read and changed, by
\* the holder of its lock only; the thread that issues the network call or
\* writes a log line holds no lock
C29_LockStep ==
    \A t \in Threads :
        Acts(t) =>
            /\ (request_counter' # request_counter \/ pc[t] = "incr_load") =>
                  Holds(request_counter_lock, t)
            /\ (active_requests' # active_requests \/ pc[t] = "read_len") =>
                  Holds(active_requests_lock, t)
            /\ (log' # log \/ wire' # wire) =>
                  /\ ~Holds(request_counter_lock, t)
                  /\ ~Holds(active_requests_lock, t)

\* C29: in auth_requests every read-modify-write of _request_counter and of
\* _active_requests happens while holding the corresponding lock, the
\* calling thread holds neither lock when it issues the network call or
\* emits a log event, and no thread ever holds both locks at once; hence
\* concurrent calls cannot deadlock on these locks and a blocked network
\* call never prevents another call from registering or unregistering.
C29_LocksAroundSharedStateOnly == [](C29_LockState) /\ [][C29_LockStep]_vars

\* one call is inside the network call while another one, holding the
\* registry lock, registers
C29_Witness ==
    \E t, u \in Threads :
        /\ pc[t] = "in_network"
        /\ pc[u] = "insert"
        /\ Holds(active_requests_lock, u)

\* the call of thread t has been given its id
HasId(t) == IdOf(t) # 0

\* the call of thread t has inserted its record in the registry
Registered(t) == t \in InFlight \/ pc[t] = "log_end" \/ Ended(t)

\* the call of thread t has taken its concurrency snapshot
Snapshotted(t) == pc[t] = "insert" \/ Registered(t)

\* C30: call admission is a single moment: under any interleaving, if call
\* A is assigned a smaller id than call B then A's concurrency snapshot and
\* registry insertion happen before B's, so ids order calls exactly as their
\* registration order.
C30_IdsOrderAdmission ==
    \A t, u \in Threads :
        (HasId(t) /\ HasId(u) /\ IdOf(t) < IdOf(u)) =>
            /\ Snapshotted(u) => Snapshotted(t)
            /\ Registered(u) => Registered(t)

(***************************************************************************)
(* Properties of a second scan by the same LogAnalyzer.                    *)
(***************************************************************************)
\* the second scan has ended and the report is printed again
RescanDone == lc_run = 2 /\ lc_pc = "done"

\* C33: scanning the same input a second time with the same LogAnalyzer
\* instance is idempotent: after analyze_file has been applied twice to an
\* identical line sequence, http_requests, api_requests, slow_requests,
\* timeouts and concurrent_peak are equal to their values after the first
\* application, and the report is the same.
C33_RescanIdempotent ==
    RescanDone =>
        /\ analyzer = first_run.analyzer
        /\ report = first_run.report

\* the part of the statement that holds: the two dicts and the peak
C33_DictsAndPeakKept ==
    RescanDone =>
        /\ analyzer.http_requests = first_run.analyzer.http_requests
        /\ analyzer.api_requests = first_run.analyzer.api_requests
        /\ analyzer.concurrent_peak = first_run.analyzer.concurrent_peak

\* what the second scan does to the two lists: every entry is there twice
C33_ListsDoubled ==
    RescanDone =>
        /\ analyzer.slow_requests =
              first_run.analyzer.slow_requests \o first_run.analyzer.slow_requests
        /\ analyzer.timeouts =
              first_run.analyzer.timeouts \o first_run.analyzer.timeouts

\* the cursors execute opened for the wrapper call that just ended: every
\* cursor a statement of the call ran on, but for the one the caller passed in
OpenedFor(out) ==
    {out.exec.stmts[i].cursor : i \in DOMAIN out.exec.stmts} \ {out.exec.arg}

\* a cursor that holds nothing any more: closed, or its connection is closed
Released(c) == c \in closed \/ conns[cursors[c]] = "closed"

\* C34: when insert, update or query_all has returned or raised, every cursor
\* opened for that call is closed (a cursor whose connection was closed
\* counts as closed too).
C34_NoCursorLeftOpen ==
    db_out.op \in Wrappers => \A c \in OpenedFor(db_out) : Released(c)

\* what does hold: the cursor execute handed to the wrapper is closed, and so
\* is every cursor of a call whose execute returned without a reconnect, or
\* every cursor of it that is still on an open connection
C34_ReturnedCursorClosed ==
    (db_out.op \in Wrappers /\ db_out.exec.kind = "return") =>
        /\ db_out.exec.cursor \in closed
        /\ \A c \in OpenedFor(db_out) :
              conns[cursors[c]] = "open" => c \in closed

\* a suppressed integrity error leaves the cursor of the failed statement open
\* on the connection the instance keeps
C34_LeakSeen ==
    /\ db_out.op = "insert"
    /\ db_out.kind = "return"
    /\ db_out.exec.kind = "raise"
    /\ db_out.exec.error = "IntegrityError"
    /\ \E c \in OpenedFor(db_out) : c \notin closed /\ cursors[c] = conn

\* every registered call has written its REQ_START line
StartsLogged == \A t \in Threads : pc[t] # "log_start"

\* number of calls in flight: registered and not yet removed
InFlightNow == Cardinality(DOMAIN active_requests)

\* the counts of the calls that are registered and have yet to write REQ_START
PendingCounts == {call[t].active_count : t \in {u \in Threads : pc[u] = "log_start"}}

\* the largest number of a set of naturals, 0 for the empty set
MaxOf(S) == IF S = {} THEN 0 ELSE CHOOSE x \in S : \A y \in S : y <= x

WrittenCounts ==
    {log[i].active_count : i \in {j \in DOMAIN log : log[j].tag = "REQ_START"}}

\* the engine's peak is the largest count written in a REQ_START line; with
\* the counts still to be written it covers every call in flight but the
\* last one admitted; while none has been removed and every start is
\* written, it is the number in flight less one (0 for none)
C31_PeakState ==
    /\ EnginePeak = MaxOf(WrittenCounts)
    /\ InFlightNow <= 1 + MaxOf({EnginePeak} \cup PendingCounts)
    /\ (NoneRemoved /\ StartsLogged) =>
          EnginePeak = IF InFlightNow = 0 THEN 0 ELSE InFlightNow - 1

\* the registry grows only when a call is admitted, from the number the call
\* will write to one more; the number is kept until REQ_START is written,
\* and a REQ_START line is written only so, with that number
C31_PeakStep ==
    /\ Cardinality(DOMAIN active_requests') > InFlightNow =>
          \E t \in Threads :
              /\ pc[t] = "insert" /\ pc'[t] = "log_start"
              /\ InFlightNow = call'[t].active_count
              /\ Cardinality(DOMAIN active_requests') = call'[t].active_count + 1
    /\ \A t \in Threads :
          (pc[t] = "log_start" /\ pc'[t] = "log_start") =>
              call'[t].active_count = call[t].active_count
    /\ \A t \in Threads :
          (pc[t] = "log_start" /\ pc'[t] # "log_start") =>
              log' = Append(log, Event("REQ_START", call[t].request_id,
                                       call[t].active_count, 0))
    /\ (Len(log') > Len(log) /\ log'[Len(log')].tag = "REQ_START") =>
          \E t \in Threads : pc[t] = "log_start" /\ pc'[t] # "log_start"

Callers == {[pc |-> db_pc, op |-> db_op], [pc |-> db_peer.pc, op |-> db_peer.op]}

\* the caller is at a cursor.execute on a cursor execute opened for it
AtStatement(c) ==
    /\ c.pc \in {"first_execute", "retry"}
    /\ c.pc = "first_execute" => c.op.arg = NoCursor

\* the connections the instance works with: self.conn, and the connection of
\* the cursor of each caller that is at its statement
Referenced ==
    ({conn} \cup {cursors[c.op.cursor] : c \in {d \in Callers : AtStatement(d)}})
        \ {NoConn}

\* the connections that are open
OpenConns == {i \in DOMAIN conns : conns[i] = "open"}

\* the operations of the two callers were serialized so far: neither was
\* suspended inside execute
Serialized == ~db_peer.preempted

\* C32: while the callers are serialized, one operation at a time, the
\* instance works with at most one connection, and a caller at its statement
\* runs it on an open connection, which is self.conn: none was closed under
\* it.  Without serialization this fails (C32_Witness, C32_BothConnected).
C32_SerializedUseIsSafe ==
    Serialized =>
        /\ Cardinality(Referenced) <= 1
        /\ \A c \in Callers :
              AtStatement(c) =>
                  /\ conns[cursors[c.op.cursor]] = "open"
                  /\ cursors[c.op.cursor] = conn

\* while the callers of execute are serialized no connection but self.conn
\* is open
C32_OneOpenConnection == Serialized => OpenConns \subseteq {conn}

\* unserialized: a caller is at its first statement, on a cursor of the
\* connection self.conn held when it entered, and the other caller's
\* reconnect has closed that connection and put a new one in self.conn
C32_Witness ==
    /\ ~Serialized
    /\ \E c \in Callers :
          /\ c.pc = "first_execute"
          /\ AtStatement(c)
          /\ c.op.old_conn # NoConn
          /\ cursors[c.op.cursor] = c.op.old_conn
          /\ conns[c.op.old_conn] = "closed"
          /\ conn \notin {NoConn, c.op.old_conn}
          /\ conns[conn] = "open"

\* unserialized: both callers found self.conn None and connected; the
\* connection of the one that assigned first is open and no longer in
\* self.conn
C32_BothConnected ==
    /\ ~Serialized
    /\ Cardinality(OpenConns) = 2
    /\ \A c \in Callers :
          c.pc = "first_execute" /\ c.op.old_conn = NoConn /\ AtStatement(c)
    /\ \E c \in Callers : cursors[c.op.cursor] # conn

\* serialized: both callers have run an execute, one after the other
C32_SerializedSeen ==
    /\ Serialized
    /\ db_calls > 0
    /\ db_peer.calls > 0
    /\ db_pc = "idle"
====
